---- MODULE Spec2Model ----
(***************************************************************************)
(* Expense tracker: the cache / queue / lease pipeline.                    *)
(*                                                                         *)
(* State: the record store (MongoDB), the four Redis key namespaces, the   *)
(* durable analytics queue (RabbitMQ), the HTTP requests in flight in the  *)
(* API process and the consumer callbacks in flight in the analytics       *)
(* worker.  Every `await` of the source on shared state is a step          *)
(* boundary: one action is the code of a route or handler from one call on *)
(* shared state up to the next.                                            *)
(***************************************************************************)
EXTENDS Integers, Sequences, FiniteSets, Bags, TLC

\* ---------------------------------------------------------------- bounds
\* Requests issued in one run, GET /patterns/status apart.
MaxRequests == 2
\* GET /patterns/status requests issued in one run.
MaxPolls == 2
\* Jobs waiting in the analytics queue when the worker starts on a backlog.
MaxJobs == 2
MaxMonths == 6
MaxCategories == 4
MaxTicks == 1

\* ------------------------------------------------------------- constants
Users == {"u1", "u2"}
Months == {"2024-01", "2024-02"}

MutationTypes == {"NEW_EXPENSE", "UPDATE_EXPENSE", "DELETE_EXPENSE"}
CALCULATE_PATTERNS == "CALCULATE_PATTERNS"

\* A cache read: <<>> is a miss (null), <<v>> a hit on value v.  A cached
\* aggregate is represented by the state of the store it was computed from.
Absent == <<>>
Present(v) == <<v>>
IsPresent(x) == x # <<>>

VARIABLES
  db,          \* db[u]: the state of u's records in the store, as a version
  redisUp,     \* the Redis server answers; when FALSE every Redis call throws
  monthly,     \* monthly[u][m]   monthly_summary:{u}:{m}
  summary,     \* summary[u]      analytics_summary:{u}
  patterns,    \* patterns[u]     spending_patterns:{u}
  processing,  \* processing[u]   spending_patterns_processing:{u} is set
  leaseNewer,  \* leaseNewer[u]   the marker was set after the result entry
  queue,       \* the analytics queue, oldest first
  handlers,    \* consumer callbacks in flight in the worker, delivery order
  reqs,        \* bag of HTTP requests in flight
  issued,      \* number of requests issued so far
  polled,      \* number of GET /patterns/status requests issued so far
  lastPoll,    \* lastPoll[u]: the last answer of GET /patterns/status
  trigSince,   \* trigSince[u]: GET /patterns enqueued a job since that answer
  rows,        \* rows[u]: u's expenses grouped by month and category
  clock,       \* the month the clock of the worker is in
  answer,      \* the last answer of a route of the expenses and their summaries
  sessions,    \* sessions[t]: the token t, its key auth_{t} and its requests
  client       \* the Redis client of the API process and the callers of connect

vars == <<db, redisUp, monthly, summary, patterns, processing, leaseNewer,
          queue, handlers, reqs, issued, polled, lastPoll, trigSince, rows,
          clock, answer, sessions,
          client>>

cacheVars == <<monthly, summary, patterns, processing, leaseNewer>>
pollVars == <<lastPoll, trigSince>>
storeVars == <<rows, clock>>
appVars == <<db, cacheVars, queue, handlers, reqs, issued, polled, pollVars,
             storeVars, answer>>

\* ------------------------------------------------------------- helpers
RemoveAt(s, i) == SubSeq(s, 1, i - 1) \o SubSeq(s, i + 1, Len(s))

\* An HTTP request in flight: the route, the authenticated user, the place
\* in the route's code, and the route's locals.
Req(kind, u, pc, month, val, keys) ==
  [kind |-> kind, user |-> u, pc |-> pc, month |-> month, val |-> val,
   keys |-> keys]

NoMonth == "-"

\* What a route answers: res.status(status).json(body).  The body is the
\* summary of the answer of a read, as the state of the store it was computed
\* from, the expense of a write, or the message of an error.
Answered(route, u, status, body) ==
  [route |-> route, user |-> u, status |-> status, body |-> body]
NoAnswer == Answered("-", "-", 0, "-")
ServerError(route, u) == Answered(route, u, 500, "Server error")

\* Bearer tokens.  A token is the string jwt.sign returned at a login, or any
\* other string a client sends.
Tokens == {"t1", "t2"}

\* sessions[t]: signed: a login has returned t; expired: the expiry time in t
\* has passed; cached: the key auth_{t} is in Redis; pc, route: the request
\* that carries t and is in flight, where it stands and whether it is
\* POST /logout; last: how the last request that carried t ended;
\* loggedOut: POST /logout has answered 200 for t.
NoSession ==
  [signed |-> FALSE, expired |-> FALSE, cached |-> FALSE, pc |-> "idle",
   route |-> "-", last |-> "-", loggedOut |-> FALSE]

\* The request returns (res.json / res.status(..).json).
Respond(r) == reqs' = reqs (-) SetToBag({r})
\* The request continues after an await.
Goto(r, r2) == reqs' = (reqs (-) SetToBag({r})) (+) SetToBag({r2})

\* A consumer callback in flight in the worker.
Handler(type, u, pc, acked, val, keys) ==
  [type |-> type, user |-> u, pc |-> pc, acked |-> acked, val |-> val,
   keys |-> keys]

\* redisClient.keys(`monthly_summary:${userId}:*`)
MonthlyKeys(u) == {m \in Months : IsPresent(monthly[u][m])}

\* redisClient.del(keys) on monthly_summary keys of u
DelMonthly(u, keys) ==
  monthly' = [monthly EXCEPT ![u] =
                [m \in Months |-> IF m \in keys THEN Absent ELSE monthly[u][m]]]

\* config/redis.js: the one redisClient of the process.  isConnected: the
\* module's flag; socket: the state of the client itself ("closed" until
\* connect() is called, "opening" until it is ready, "reconnecting" after an
\* error); load, start, gets[k]: where the connectRedis() of the module load
\* of server.js, the one of startServer and the getRedisClient() of request k
\* stand; reentered: connect() was called on a client that was not closed;
\* exited: process.exit(1) was called.
NoClient ==
  [isConnected |-> FALSE, socket |-> "closed", load |-> "idle",
   start |-> "idle", gets |-> [k \in 1..MaxRequests |-> "idle"],
   reentered |-> FALSE, exited |-> FALSE]

\* ---------------------------------------------------------------- Init
Init ==
  /\ db = [u \in Users |-> 0]
  /\ redisUp = TRUE
  /\ monthly = [u \in Users |-> [m \in Months |-> Absent]]
  /\ summary = [u \in Users |-> Absent]
  /\ patterns = [u \in Users |-> Absent]
  /\ processing = [u \in Users |-> FALSE]
  /\ leaseNewer = [u \in Users |-> FALSE]
  /\ queue = <<>>
  /\ handlers = <<>>
  /\ reqs = EmptyBag
  /\ issued = 0
  /\ polled = 0
  /\ lastPoll = [u \in Users |-> [status |-> "none", data |-> Absent]]
  /\ trigSince = [u \in Users |-> FALSE]
  /\ answer = NoAnswer
  /\ sessions = [t \in Tokens |-> NoSession]
  /\ client = NoClient
  /\ rows = [u \in Users |-> <<>>]
  /\ clock = 0

\* ------------------------------------------------------ the Redis server
\* The Redis server becomes unreachable: getRedisClient() (connectRedis) or
\* the command itself throws in every caller until it is back.
RedisFails ==
  /\ redisUp
  /\ redisUp' = FALSE
  /\ UNCHANGED <<db, cacheVars, queue, handlers, reqs, issued, polled, pollVars>>
  /\ UNCHANGED <<storeVars, answer, sessions, client>>

RedisRecovers ==
  /\ ~redisUp
  /\ redisUp' = TRUE
  /\ UNCHANGED <<db, cacheVars, queue, handlers, reqs, issued, polled, pollVars>>
  /\ UNCHANGED <<storeVars, answer, sessions, client>>

\* ------------------------------------- routes/auth.js, middleware/auth.js
\* POST /login with the credentials of a user: jwt.sign(payload, secret,
\* {expiresIn}), set(auth_{token}, userData, EX 86400) and the answer with the
\* token.  A Redis failure is a 500 and the token is not returned.
Login(t) ==
  /\ ~sessions[t].signed
  /\ redisUp
  /\ sessions' = [sessions EXCEPT ![t].signed = TRUE, ![t].cached = TRUE]
  /\ UNCHANGED <<appVars, redisUp, client>>

\* The expiry time of the token passes.
TokenExpires(t) ==
  /\ sessions[t].signed /\ ~sessions[t].expired
  /\ sessions' = [sessions EXCEPT ![t].expired = TRUE]
  /\ UNCHANGED <<appVars, redisUp, client>>

\* The key auth_{t} reaches its TTL.
AuthKeyExpires(t) ==
  /\ sessions[t].cached
  /\ sessions' = [sessions EXCEPT ![t].cached = FALSE]
  /\ UNCHANGED <<appVars, redisUp, client>>

\* The middleware on a request with "Authorization: Bearer t":
\* redisClient.get(auth_{t}); a hit sets req.user from the cache and calls
\* next(), a miss goes on to verify the token.  A Redis failure is a 500.
AuthGet(t, route) ==
  /\ sessions[t].pc = "idle"
  /\ sessions' =
       [sessions EXCEPT ![t] =
          IF ~redisUp THEN [@ EXCEPT !.last = "500"]
          ELSE IF ~sessions[t].cached
            THEN [@ EXCEPT !.pc = "verify", !.route = route]
          ELSE IF route = "logout"
            THEN [@ EXCEPT !.pc = "del", !.route = route]
          ELSE [@ EXCEPT !.last = "next"]]
  /\ UNCHANGED <<appVars, redisUp, client>>

\* The middleware on a miss: jwt.verify(token, secret) (JsonWebTokenError and
\* TokenExpiredError are a 401), User.findById (no user: 401; found = FALSE
\* stands for it and for a failure of the store), set(auth_{t}, user,
\* EX 86400) and next().
AuthVerify(t) ==
  /\ sessions[t].pc = "verify"
  /\ \E found \in BOOLEAN :
       sessions' =
         [sessions EXCEPT ![t] =
            IF ~sessions[t].signed \/ sessions[t].expired \/ ~found
              THEN [@ EXCEPT !.pc = "idle", !.route = "-", !.last = "401"]
            ELSE IF ~redisUp
              THEN [@ EXCEPT !.pc = "idle", !.route = "-", !.last = "500"]
            ELSE IF sessions[t].route = "logout"
              THEN [@ EXCEPT !.cached = TRUE, !.pc = "del"]
            ELSE [@ EXCEPT !.cached = TRUE, !.pc = "idle", !.route = "-",
                           !.last = "next"]]
  /\ UNCHANGED <<appVars, redisUp, client>>

\* POST /logout after the middleware: del(auth_{req.token}) and the answer
\* "Logged out successfully".  A Redis failure is a 500.
LogoutDel(t) ==
  /\ sessions[t].pc = "del"
  /\ sessions' =
       [sessions EXCEPT ![t] =
          IF redisUp
            THEN [@ EXCEPT !.cached = FALSE, !.pc = "idle", !.route = "-",
                           !.last = "logged out", !.loggedOut = TRUE]
            ELSE [@ EXCEPT !.pc = "idle", !.route = "-", !.last = "500"]]
  /\ UNCHANGED <<appVars, redisUp, client>>

\* ------------------------------------------------- requests are received
\* A request is received (auth has passed) and its route runs up to and
\* including its first call on shared state; Arrive(rs) leaves the requests
\* rs waiting for what they await next.
Arrive(rs) ==
  /\ issued < MaxRequests
  /\ issued' = issued + 1
  /\ reqs' = reqs (+) SetToBag(rs)
  /\ UNCHANGED polled

ArrivePoll(rs) ==
  /\ polled < MaxPolls
  /\ polled' = polled + 1
  /\ reqs' = reqs (+) SetToBag(rs)
  /\ UNCHANGED issued

\* -------------------------------------------- routes/expenses.js: writes
\* Variant of PostSave that publishes the job before the route invalidates.
PostSavePublishesFirst(u) ==
  /\ \E ok \in BOOLEAN :
       IF ok
         THEN /\ db' = [db EXCEPT ![u] = db[u] + 1]
              /\ queue' = Append(queue, [type |-> "NEW_EXPENSE", userId |-> u])
              /\ Arrive({Req("NEW_EXPENSE", u, "keys", NoMonth, 0, {})})
              /\ UNCHANGED answer
         ELSE /\ Arrive({})
              /\ answer' = ServerError("NEW_EXPENSE", u)
              /\ UNCHANGED <<db, queue>>
  /\ UNCHANGED <<redisUp, cacheVars, handlers, pollVars>>
  /\ UNCHANGED <<storeVars, sessions, client>>

\* POST /: newExpense.save().  ok = FALSE: the store call throws and the
\* route's catch answers 500.  Every write leaves the user's records in a new
\* state.
PostSave(u) ==
  /\ \E ok \in BOOLEAN :
       IF ok
         THEN /\ db' = [db EXCEPT ![u] = db[u] + 1]
              /\ Arrive({Req("NEW_EXPENSE", u, "keys", NoMonth, 0, {})})
              /\ UNCHANGED answer
         ELSE /\ Arrive({})
              /\ answer' = ServerError("NEW_EXPENSE", u)
              /\ UNCHANGED db
  /\ UNCHANGED <<redisUp, cacheVars, queue, handlers, pollVars>>
  /\ UNCHANGED <<storeVars, sessions, client>>

\* Variant of PutDeleteSave that compares the owner after the write: the
\* record of the other user is written and the request answers 401.
PutDeleteSaveChecksOwnerLate(u) ==
  /\ \E k \in {"UPDATE_EXPENSE", "DELETE_EXPENSE"}, ok \in BOOLEAN,
        found \in {"own", "other", "none"} :
       IF ok /\ found = "own"
         THEN /\ db' = [db EXCEPT ![u] = db[u] + 1]
              /\ Arrive({Req(k, u, "keys", NoMonth, 0, {})})
              /\ UNCHANGED answer
         ELSE /\ Arrive({})
              /\ answer' = IF ~ok THEN ServerError(k, u)
                            ELSE IF found = "none"
                              THEN Answered(k, u, 404, "Expense not found")
                            ELSE Answered(k, u, 401, "User not authorized")
              /\ IF ok /\ found = "other"
                   THEN LET v == CHOOSE w \in Users : w # u
                        IN db' = [db EXCEPT ![v] = db[v] + 1]
                   ELSE UNCHANGED db
  /\ UNCHANGED <<redisUp, cacheVars, queue, handlers, pollVars>>
  /\ UNCHANGED <<storeVars, sessions, client>>

\* PUT /:id and DELETE /:id: Expense.findById(req.params.id), the 404 and 401
\* returns, then expense.save() / expense.deleteOne().  found: what the id of
\* the request names in the store (a record of the user, of another user, or
\* nothing).
PutDeleteSave(u) ==
  /\ \E k \in {"UPDATE_EXPENSE", "DELETE_EXPENSE"}, ok \in BOOLEAN,
        found \in {"own", "other", "none"} :
       IF ok /\ found = "own"
         THEN /\ db' = [db EXCEPT ![u] = db[u] + 1]
              /\ Arrive({Req(k, u, "keys", NoMonth, 0, {})})
              /\ UNCHANGED answer
         ELSE /\ Arrive({})
              /\ answer' = IF ~ok THEN ServerError(k, u)
                            ELSE IF found = "none"
                              THEN Answered(k, u, 404, "Expense not found")
                            ELSE Answered(k, u, 401, "User not authorized")
              /\ UNCHANGED db
  /\ UNCHANGED <<redisUp, cacheVars, queue, handlers, pollVars>>
  /\ UNCHANGED <<storeVars, sessions, client>>

\* invalidateMonthlyCache, first half: getRedisClient() and keys(pattern).
\* It has no try/catch: a Redis failure reaches the route's catch (500).
MutKeys(r) ==
  /\ r.kind \in MutationTypes /\ r.pc = "keys"
  /\ IF redisUp
       THEN LET ks == MonthlyKeys(r.user) IN
            /\ Goto(r, [r EXCEPT !.keys = ks,
                                 !.pc = IF ks = {} THEN "publish" ELSE "del"])
            /\ UNCHANGED answer
       ELSE /\ Respond(r)
            /\ answer' = ServerError(r.kind, r.user)
  /\ UNCHANGED <<db, redisUp, cacheVars, queue, handlers, issued, polled,
                 pollVars>>
  /\ UNCHANGED <<storeVars, sessions, client>>

\* invalidateMonthlyCache, second half: del(keys) when keys.length > 0.
MutDel(r) ==
  /\ r.kind \in MutationTypes /\ r.pc = "del"
  /\ IF redisUp
       THEN /\ DelMonthly(r.user, r.keys)
            /\ Goto(r, [r EXCEPT !.pc = "publish", !.keys = {}])
            /\ UNCHANGED answer
       ELSE /\ Respond(r)
            /\ answer' = ServerError(r.kind, r.user)
            /\ UNCHANGED monthly
  /\ UNCHANGED <<db, redisUp, summary, patterns, processing, leaseNewer, queue,
                 handlers, issued, polled, pollVars>>
  /\ UNCHANGED <<storeVars, sessions, client>>

\* publishToQueue(ANALYTICS_QUEUE, {type, userId, ..}) and the 2xx answer.
MutPublish(r) ==
  /\ r.kind \in MutationTypes /\ r.pc = "publish"
  /\ queue' = Append(queue, [type |-> r.kind, userId |-> r.user])
  /\ Respond(r)
  /\ answer' = Answered(r.kind, r.user,
                        IF r.kind = "NEW_EXPENSE" THEN 201 ELSE 200, "expense")
  /\ UNCHANGED <<db, redisUp, cacheVars, handlers, issued, polled, pollVars>>
  /\ UNCHANGED <<storeVars, sessions, client>>

\* --------------------------------------------- cached aggregates: reads
\* Variant of MonthlyGet that goes on to the aggregation whatever the cache
\* holds.
MonthlyGetIgnoresCache(u) ==
  /\ \E m \in Months :
       IF ~redisUp
         THEN /\ Arrive({})
              /\ answer' = ServerError("MONTHLY", u)
         ELSE /\ Arrive({Req("MONTHLY", u, "agg", m, 0, {})})
              /\ UNCHANGED answer
  /\ UNCHANGED <<db, redisUp, cacheVars, queue, handlers, pollVars>>
  /\ UNCHANGED <<storeVars, sessions, client>>

\* GET /summary/monthly: redisClient.get(cacheKey); a hit is answered from the
\* cache, a miss goes on to the aggregation.  A Redis failure is a 500.
MonthlyGet(u) ==
  /\ \E m \in Months :
       IF ~redisUp
         THEN /\ Arrive({})
              /\ answer' = ServerError("MONTHLY", u)
       ELSE IF IsPresent(monthly[u][m])
         THEN /\ Arrive({})
              /\ answer' = Answered("MONTHLY", u, 200, monthly[u][m][1])
       ELSE /\ Arrive({Req("MONTHLY", u, "agg", m, 0, {})})
            /\ UNCHANGED answer
  /\ UNCHANGED <<db, redisUp, cacheVars, queue, handlers, pollVars>>
  /\ UNCHANGED <<storeVars, sessions, client>>

\* GET /summary: the same on analytics_summary:{userId}.
SummaryGet(u) ==
  /\ IF ~redisUp
       THEN /\ Arrive({})
            /\ answer' = ServerError("SUMMARY", u)
     ELSE IF IsPresent(summary[u])
       THEN /\ Arrive({})
            /\ answer' = Answered("SUMMARY", u, 200, summary[u][1])
     ELSE /\ Arrive({Req("SUMMARY", u, "agg", NoMonth, 0, {})})
          /\ UNCHANGED answer
  /\ UNCHANGED <<db, redisUp, cacheVars, queue, handlers, pollVars>>
  /\ UNCHANGED <<storeVars, sessions, client>>

\* Expense.aggregate([...]): the summary is computed from the store.
ReadAggregate(r) ==
  /\ r.kind \in {"MONTHLY", "SUMMARY"} /\ r.pc = "agg"
  /\ \E ok \in BOOLEAN :
       IF ok
         THEN /\ Goto(r, [r EXCEPT !.pc = "set", !.val = db[r.user]])
              /\ UNCHANGED answer
         ELSE /\ Respond(r)
              /\ answer' = ServerError(r.kind, r.user)
  /\ UNCHANGED <<db, redisUp, cacheVars, queue, handlers, issued, polled,
                 pollVars>>
  /\ UNCHANGED <<storeVars, sessions, client>>

\* redisClient.set(cacheKey, JSON.stringify(result), {EX: 3600}); res.json.
ReadSet(r) ==
  /\ r.kind \in {"MONTHLY", "SUMMARY"} /\ r.pc = "set"
  /\ IF redisUp /\ r.kind = "MONTHLY"
       THEN monthly' = [monthly EXCEPT ![r.user][r.month] = Present(r.val)]
       ELSE UNCHANGED monthly
  /\ IF redisUp /\ r.kind = "SUMMARY"
       THEN summary' = [summary EXCEPT ![r.user] = Present(r.val)]
       ELSE UNCHANGED summary
  /\ Respond(r)
  /\ answer' = IF redisUp THEN Answered(r.kind, r.user, 200, r.val)
                ELSE ServerError(r.kind, r.user)
  /\ UNCHANGED <<db, redisUp, patterns, processing, leaseNewer, queue, handlers,
                 issued, polled, pollVars>>
  /\ UNCHANGED <<storeVars, sessions, client>>

\* ----------------------------------------- routes/analytics.js: patterns
\* Variant of PatternsGet that also reads the processing marker and goes on
\* to the publish only when it is absent.
PatternsGetChecksMarker(u) ==
  /\ IF redisUp /\ ~IsPresent(patterns[u]) /\ ~processing[u]
       THEN Arrive({Req("PATTERNS", u, "publish", NoMonth, 0, {})})
       ELSE Arrive({})
  /\ UNCHANGED <<db, redisUp, cacheVars, queue, handlers, pollVars>>
  /\ UNCHANGED <<storeVars, answer, sessions, client>>

\* GET /patterns: redisClient.get(`spending_patterns:${userId}`); a hit is
\* answered from the cache, a miss goes on to the publish.
PatternsGet(u) ==
  /\ IF redisUp /\ ~IsPresent(patterns[u])
       THEN Arrive({Req("PATTERNS", u, "publish", NoMonth, 0, {})})
       ELSE Arrive({})
  /\ UNCHANGED <<db, redisUp, cacheVars, queue, handlers, pollVars>>
  /\ UNCHANGED <<storeVars, answer, sessions, client>>

\* GET /patterns on a miss: publishToQueue({type: CALCULATE_PATTERNS, userId})
\* and the answer {status: "processing"}.
PatternsPublish(r) ==
  /\ r.kind = "PATTERNS" /\ r.pc = "publish"
  /\ queue' = Append(queue, [type |-> CALCULATE_PATTERNS, userId |-> r.user])
  /\ trigSince' = [trigSince EXCEPT ![r.user] = TRUE]
  /\ Respond(r)
  /\ UNCHANGED <<db, redisUp, cacheVars, handlers, issued, polled, lastPoll>>
  /\ UNCHANGED <<storeVars, answer, sessions, client>>

\* Variant of StatusAnswer that takes an absent marker for a set one.
StatusAnswerInverted(result, marker) ==
  IF IsPresent(result) THEN [status |-> "completed", data |-> result]
  ELSE IF ~marker THEN [status |-> "processing", data |-> Absent]
  ELSE [status |-> "not_started", data |-> Absent]

\* What GET /patterns/status answers from its two reads.
StatusAnswer(result, marker) ==
  IF IsPresent(result) THEN [status |-> "completed", data |-> result]
  ELSE IF marker THEN [status |-> "processing", data |-> Absent]
  ELSE [status |-> "not_started", data |-> Absent]

\* The answer reaches the client.
Answer(u, a) ==
  /\ lastPoll' = [lastPoll EXCEPT ![u] = a]
  /\ trigSince' = [trigSince EXCEPT ![u] = FALSE]

\* The client of u is waiting for the answer to a poll.
Polling(u) == \E r \in BagToSet(reqs) : r.kind = "STATUS" /\ r.user = u

\* Variant of StatusGetResult that looks at the processing marker before the
\* result entry.
StatusMarkerFirst(u) ==
  /\ ~Polling(u)
  /\ IF redisUp /\ (processing[u] \/ IsPresent(patterns[u]))
       THEN /\ Answer(u, IF processing[u]
                           THEN [status |-> "processing", data |-> Absent]
                           ELSE StatusAnswer(patterns[u], FALSE))
            /\ ArrivePoll({})
       ELSE /\ IF redisUp
                 THEN ArrivePoll({Req("STATUS", u, "flag", NoMonth, 0, {})})
                 ELSE ArrivePoll({})
            /\ UNCHANGED pollVars
  /\ UNCHANGED <<db, redisUp, cacheVars, queue, handlers>>
  /\ UNCHANGED <<storeVars, answer, sessions, client>>

\* GET /patterns/status: the read of the result entry; a hit answers
\* "completed" with the data without reading the marker.  A client polls
\* again once it has the answer to its previous poll.
StatusGetResult(u) ==
  /\ ~Polling(u)
  /\ IF redisUp /\ IsPresent(patterns[u])
       THEN /\ Answer(u, StatusAnswer(patterns[u], FALSE))
            /\ ArrivePoll({})
       ELSE /\ IF redisUp
                 THEN ArrivePoll({Req("STATUS", u, "flag", NoMonth, 0, {})})
                 ELSE ArrivePoll({})
            /\ UNCHANGED pollVars
  /\ UNCHANGED <<db, redisUp, cacheVars, queue, handlers>>
  /\ UNCHANGED <<storeVars, answer, sessions, client>>

\* GET /patterns/status: the read of the processing marker and the answer.
StatusGetMarker(r) ==
  /\ r.kind = "STATUS" /\ r.pc = "flag"
  /\ IF redisUp
       THEN Answer(r.user, StatusAnswer(Absent, processing[r.user]))
       ELSE UNCHANGED pollVars
  /\ Respond(r)
  /\ UNCHANGED <<db, redisUp, cacheVars, queue, handlers, issued, polled>>
  /\ UNCHANGED <<storeVars, answer, sessions, client>>

\* ------------------------------------ config/rabbitmq.js: consumeFromQueue
\* The handler's promise settles: it leaves the worker.
Finish(i) == handlers' = RemoveAt(handlers, i)
\* The handler continues after an await.
Continue(i, h) == handlers' = [handlers EXCEPT ![i] = h]

\* channel.ack(msg) follows callback(data) in the consume callback: the
\* message is acknowledged as soon as the handler has returned its promise.
AckOnDelivery == TRUE

\* channel.consume's callback for one message of the given type: JSON.parse,
\* callback(data) (an async function: it runs to its first await and returns a
\* promise that nobody awaits), channel.ack(msg).  No prefetch limit is set, so
\* the broker delivers the next message whenever there is one.  hs: the
\* handler as its first call on shared state leaves it (none if it has ended).
Consume(type, hs) ==
  /\ queue # <<>>
  /\ Head(queue).type = type
  /\ queue' = Tail(queue)
  /\ handlers' = handlers \o hs

\* ------------------------------------- analyticsWorker.js: unknown types
\* The types the switch of the worker names.
KnownTypes == MutationTypes \cup {CALCULATE_PATTERNS}

\* Variant of SkipUnknown in which the default label is missing and an
\* unknown type runs the invalidation, first step as in InvKeys.
SkipUnknownInvalidates ==
  /\ queue # <<>>
  /\ Head(queue).type \notin KnownTypes
  /\ LET u == Head(queue).userId
         ks == MonthlyKeys(u) IN
     Consume(Head(queue).type,
             IF redisUp
               THEN <<Handler(Head(queue).type, u,
                              IF ks = {} THEN "delS" ELSE "delM",
                              AckOnDelivery, 0, ks)>>
               ELSE <<>>)
  /\ UNCHANGED <<db, redisUp, cacheVars, reqs, issued, polled, pollVars>>
  /\ UNCHANGED <<storeVars, answer, sessions, client>>

\* default: console.log(`Unknown analytics job type: ${data.type}`): the
\* handler ends at once; the message is acknowledged like any other.
SkipUnknown ==
  /\ queue # <<>>
  /\ Head(queue).type \notin KnownTypes
  /\ Consume(Head(queue).type, <<>>)
  /\ UNCHANGED <<db, redisUp, cacheVars, reqs, issued, polled, pollVars>>
  /\ UNCHANGED <<storeVars, answer, sessions, client>>

\* ------------------------------- cacheService.js: invalidateUserSummaries
\* case NEW/UPDATE/DELETE_EXPENSE: getRedisClient() and keys(monthlyPattern).
\* Every failure is caught inside invalidateUserSummaries (returns false) and
\* the handler logs and ends.
\* Variant of InvKeys without the test monthlyKeys.length > 0: the handler
\* goes on to del(monthlyKeys) whatever keys() returned.
InvKeysAlwaysDeletes ==
  /\ \E t \in MutationTypes :
       LET u == Head(queue).userId
           ks == MonthlyKeys(u) IN
       Consume(t, IF redisUp
                    THEN <<Handler(t, u, "delM", AckOnDelivery, 0, ks)>>
                    ELSE <<>>)
  /\ UNCHANGED <<db, redisUp, cacheVars, reqs, issued, polled, pollVars>>
  /\ UNCHANGED <<storeVars, answer, sessions, client>>

InvKeys ==
  /\ \E t \in MutationTypes :
       LET u == Head(queue).userId
           ks == MonthlyKeys(u) IN
       Consume(t, IF redisUp
                    THEN <<Handler(t, u, IF ks = {} THEN "delS" ELSE "delM",
                                   AckOnDelivery, 0, ks)>>
                    ELSE <<>>)
  /\ UNCHANGED <<db, redisUp, cacheVars, reqs, issued, polled, pollVars>>
  /\ UNCHANGED <<storeVars, answer, sessions, client>>

\* del(monthlyKeys) when monthlyKeys.length > 0.
InvDelMonthly(i) ==
  /\ handlers[i].type \in MutationTypes /\ handlers[i].pc = "delM"
  /\ IF redisUp
       THEN /\ DelMonthly(handlers[i].user, handlers[i].keys)
            /\ Continue(i, [handlers[i] EXCEPT !.pc = "delS", !.keys = {}])
       ELSE /\ Finish(i)
            /\ UNCHANGED monthly
  /\ UNCHANGED <<db, redisUp, summary, patterns, processing, leaseNewer, queue,
                 reqs, issued, polled, pollVars>>
  /\ UNCHANGED <<storeVars, answer, sessions, client>>

\* Variant of InvDelSummary that clears everything cached for the user, the
\* result of the analysis included.
InvDelSummaryDropsResult(i) ==
  /\ handlers[i].type \in MutationTypes /\ handlers[i].pc = "delS"
  /\ IF redisUp
       THEN /\ summary' = [summary EXCEPT ![handlers[i].user] = Absent]
            /\ patterns' = [patterns EXCEPT ![handlers[i].user] = Absent]
       ELSE UNCHANGED <<summary, patterns>>
  /\ Finish(i)
  /\ UNCHANGED <<db, redisUp, monthly, processing, leaseNewer, queue,
                 reqs, issued, polled, pollVars>>
  /\ UNCHANGED <<storeVars, answer, sessions, client>>

\* Variant of InvDelSummary that returns without deleting analytics_summary.
InvDelSummaryKeeps(i) ==
  /\ handlers[i].type \in MutationTypes /\ handlers[i].pc = "delS"
  /\ Finish(i)
  /\ UNCHANGED <<db, redisUp, cacheVars, queue, reqs, issued, polled, pollVars>>
  /\ UNCHANGED <<storeVars, answer, sessions, client>>

\* del(`analytics_summary:${userId}`), return true; the handler logs and ends.
InvDelSummary(i) ==
  /\ handlers[i].type \in MutationTypes /\ handlers[i].pc = "delS"
  /\ IF redisUp
       THEN summary' = [summary EXCEPT ![handlers[i].user] = Absent]
       ELSE UNCHANGED summary
  /\ Finish(i)
  /\ UNCHANGED <<db, redisUp, monthly, patterns, processing, leaseNewer, queue,
                 reqs, issued, polled, pollVars>>
  /\ UNCHANGED <<storeVars, answer, sessions, client>>

\* --------------- services/analyticsService.js: what the analysis computes
\* Numbers.  Amounts are whole numbers (of the smallest currency unit); the
\* averages and percentages of the source are quotients of whole numbers and
\* are kept exact, as <<numerator, denominator>> in lowest terms.
Max(a, b) == IF a >= b THEN a ELSE b
Min(a, b) == IF a <= b THEN a ELSE b
Abs(a) == IF a < 0 THEN -a ELSE a

RECURSIVE GCD(_, _)
GCD(a, b) == IF b = 0 THEN a ELSE GCD(b, a % b)

\* n / d, for d > 0.
Rat(n, d) == LET g == GCD(Abs(n), d) IN <<n \div g, d \div g>>
Less(p, q) == p[1] * q[2] < q[1] * p[2]

\* Math.abs(x).toFixed(1), as a number of tenths.
ToFixed1(p) == (20 * Abs(p[1]) + p[2]) \div (2 * p[2])

\* array.reduce((sum, x) => sum + x, 0)
RECURSIVE Sum(_)
Sum(s) == IF s = <<>> THEN 0 ELSE s[1] + Sum(Tail(s))

\* The rows the aggregation returns at clock reading now: the expenses dated
\* since sixMonthsAgo, grouped by month and category.
Window(rs, now) == SelectSeq(rs, LAMBDA r : r.month >= now - 6)

\* Object.values(monthlyData).sort(by year, month): the months that have a row,
\* oldest first.
RECURSIVE Ascending(_)
Ascending(S) ==
  IF S = {} THEN <<>>
  ELSE LET m == CHOOSE x \in S : \A y \in S : x <= y
       IN <<m>> \o Ascending(S \ {m})

sortedMonthlyData(rs) == Ascending({rs[k].month : k \in DOMAIN rs})

\* month.categories[category] || 0
Amount(rs, m, c) ==
  LET ks == {k \in DOMAIN rs : rs[k].month = m /\ rs[k].category = c}
  IN IF ks = {} THEN 0 ELSE rs[CHOOSE k \in ks : \A j \in ks : j <= k].total

\* Object.keys(month.categories): the categories of month m in the order of
\* their rows.
RECURSIVE FirstOccurrences(_)
FirstOccurrences(s) ==
  IF s = <<>> THEN <<>>
  ELSE LET front == FirstOccurrences(SubSeq(s, 1, Len(s) - 1))
           x == s[Len(s)]
       IN IF \E k \in DOMAIN front : front[k] = x THEN front
          ELSE Append(front, x)

CategoriesOfMonth(rs, m) ==
  LET of == SelectSeq(rs, LAMBDA r : r.month = m)
  IN FirstOccurrences([k \in DOMAIN of |-> of[k].category])

\* allCategories: a Set filled month by month, so in order of first appearance.
RECURSIVE Concat(_)
Concat(ss) == IF ss = <<>> THEN <<>> ELSE ss[1] \o Concat(Tail(ss))

allCategories(rs) ==
  LET ms == sortedMonthlyData(rs)
  IN FirstOccurrences(Concat([k \in DOMAIN ms |-> CategoriesOfMonth(rs, ms[k])]))

\* trend.data of a category: one amount per month of sortedMonthlyData.
DataOf(rs, c) ==
  LET ms == sortedMonthlyData(rs)
  IN [k \in DOMAIN ms |-> Amount(rs, ms[k], c)]

\* Variant of previousMonths that ends one month later: data.slice(-6, -2).
previousMonthsOverlapping(data) ==
  SubSeq(data, Max(Len(data) - 6, 0) + 1, Max(Len(data) - 2, 0))

\* data.slice(-3) and data.slice(-6, -3)
recentMonths(data) == SubSeq(data, Max(Len(data) - 3, 0) + 1, Len(data))
previousMonths(data) ==
  SubSeq(data, Max(Len(data) - 6, 0) + 1, Max(Len(data) - 3, 0))

\* ((recentAvg - previousAvg) / previousAvg) * 100, for previousAvg # 0.
PercentageChange(recent, previous) ==
  Rat((Sum(recent) * Len(previous) - Sum(previous) * Len(recent)) * 100,
      Sum(previous) * Len(recent))

\* Variant of Direction whose thresholds include 10 and -10.
DirectionInclusive(pc) ==
  IF ~Less(pc, Rat(10, 1)) THEN "increasing"
  ELSE IF ~Less(Rat(-10, 1), pc) THEN "decreasing"
  ELSE "stable"

\* if (percentageChange > 10) .. else if (percentageChange < -10) .. else ..
Direction(pc) ==
  IF Less(Rat(10, 1), pc) THEN "increasing"
  ELSE IF Less(pc, Rat(-10, 1)) THEN "decreasing"
  ELSE "stable"

\* Variant of CategoryTrend whose branch for previousAvg === 0 does not look
\* at recentAvg.
CategoryTrendAlwaysSentinel(data) ==
  LET avg == Rat(Sum(data), Max(1, Len(data)))
      recent == recentMonths(data)
      previous == previousMonths(data)
  IN IF Len(data) < 2 \/ Len(previous) = 0
       THEN [trend |-> "insufficient data", percentageChange |-> Rat(0, 1),
             averageMonthly |-> avg]
     ELSE IF Sum(previous) = 0
       THEN [trend |-> "increasing", percentageChange |-> Rat(100, 1),
             averageMonthly |-> avg]
     ELSE LET pc == PercentageChange(recent, previous)
          IN [trend |-> Direction(pc), percentageChange |-> pc,
              averageMonthly |-> avg]

\* Variant of CategoryTrend that asks for a full earlier part:
\* previousMonths.length < 3 instead of === 0.
CategoryTrendNeedsThree(data) ==
  LET avg == Rat(Sum(data), Max(1, Len(data)))
      recent == recentMonths(data)
      previous == previousMonths(data)
  IN IF Len(data) < 2 \/ Len(previous) < 3
       THEN [trend |-> "insufficient data", percentageChange |-> Rat(0, 1),
             averageMonthly |-> avg]
     ELSE IF Sum(previous) = 0
       THEN IF Sum(recent) = 0
              THEN [trend |-> "stable", percentageChange |-> Rat(0, 1),
                    averageMonthly |-> avg]
              ELSE [trend |-> "increasing", percentageChange |-> Rat(100, 1),
                    averageMonthly |-> avg]
     ELSE LET pc == PercentageChange(recent, previous)
          IN [trend |-> Direction(pc), percentageChange |-> pc,
              averageMonthly |-> avg]

\* The forEach over Object.values(categoryTrends): trend, percentageChange and
\* averageMonthly of one category from its data.
CategoryTrend(data) ==
  LET avg == Rat(Sum(data), Max(1, Len(data)))
      recent == recentMonths(data)
      previous == previousMonths(data)
  IN IF Len(data) < 2 \/ Len(previous) = 0
       THEN [trend |-> "insufficient data", percentageChange |-> Rat(0, 1),
             averageMonthly |-> avg]
     ELSE IF Sum(previous) = 0
       THEN IF Sum(recent) = 0
              THEN [trend |-> "stable", percentageChange |-> Rat(0, 1),
                    averageMonthly |-> avg]
              ELSE [trend |-> "increasing", percentageChange |-> Rat(100, 1),
                    averageMonthly |-> avg]
     ELSE LET pc == PercentageChange(recent, previous)
          IN [trend |-> Direction(pc), percentageChange |-> pc,
              averageMonthly |-> avg]

\* Object.values(categoryTrends), in the order of allCategories.  Entry k of
\* trend.data is {year, month, amount}: months[k] is its month, data[k] its
\* amount.
categoryTrends(rs) ==
  LET cs == allCategories(rs)
  IN [k \in DOMAIN cs |->
        LET t == CategoryTrend(DataOf(rs, cs[k]))
        IN [category |-> cs[k], trend |-> t.trend,
            percentageChange |-> t.percentageChange,
            averageMonthly |-> t.averageMonthly, data |-> DataOf(rs, cs[k]),
            months |-> sortedMonthlyData(rs)]]

\* .sort((a, b) => b.percentageChange - a.percentageChange): Array.prototype.sort
\* is stable, elements that compare equal keep their order.
RECURSIVE SortByChange(_)
SortByChange(ts) ==
  IF ts = <<>> THEN <<>>
  ELSE LET front == SortByChange(SubSeq(ts, 1, Len(ts) - 1))
           x == ts[Len(ts)]
           before == SelectSeq(front, LAMBDA t :
                       ~Less(t.percentageChange, x.percentageChange))
           after == SelectSeq(front, LAMBDA t :
                       Less(t.percentageChange, x.percentageChange))
       IN before \o <<x>> \o after

sortedByChange(rs) ==
  SortByChange(SelectSeq(categoryTrends(rs),
                         LAMBDA t : t.trend # "insufficient data"))

\* .filter(trend === ..).slice(0, 3)
TopThree(ts, direction) ==
  LET of == SelectSeq(ts, LAMBDA t : t.trend = direction)
  IN SubSeq(of, 1, Min(3, Len(of)))

increasingCategories(rs) == TopThree(sortedByChange(rs), "increasing")
decreasingCategories(rs) == TopThree(sortedByChange(rs), "decreasing")

\* totalsByMonth: the sum over the categories of each month.
totalsByMonth(rs) ==
  LET ms == sortedMonthlyData(rs)
      cs == allCategories(rs)
  IN [k \in DOMAIN ms |->
        [month |-> ms[k],
         total |-> Sum([j \in DOMAIN cs |-> Amount(rs, ms[k], cs[j])])]]

\* Variant of OverallTrend that treats the monthly totals as the forEach
\* treats the data of a category: "insufficient data" without two parts.
OverallTrendInsufficient(totals) ==
  LET recent == recentMonths(totals)
      previous == previousMonths(totals)
  IN IF Len(totals) >= 2 /\ Len(previous) > 0
       THEN IF Sum(previous) > 0
              THEN LET pc == PercentageChange(recent, previous)
                   IN [trend |-> Direction(pc), percentageChange |-> pc]
              ELSE [trend |-> "stable", percentageChange |-> Rat(0, 1)]
       ELSE [trend |-> "insufficient data", percentageChange |-> Rat(0, 1)]

\* overallTrend and overallPercentageChange from the monthly totals.
OverallTrend(totals) ==
  LET recent == recentMonths(totals)
      previous == previousMonths(totals)
  IN IF Len(totals) >= 2 /\ Len(previous) > 0 /\ Sum(previous) > 0
       THEN LET pc == PercentageChange(recent, previous)
            IN [trend |-> Direction(pc), percentageChange |-> pc]
       ELSE [trend |-> "stable", percentageChange |-> Rat(0, 1)]

\* insights: the overall sentence, then one per increasing category, then one
\* per decreasing category.  A sentence is kept as what varies in it.
Insight(type, category, pc) ==
  [type |-> type, category |-> category, percent |-> ToFixed1(pc)]

insights(rs) ==
  LET ts == totalsByMonth(rs)
      o == OverallTrend([k \in DOMAIN ts |-> ts[k].total])
      inc == increasingCategories(rs)
      dec == decreasingCategories(rs)
  IN <<[type |-> "overall", trend |-> o.trend,
        percent |-> ToFixed1(o.percentageChange),
        word |-> IF o.percentageChange[1] >= 0 THEN "increase" ELSE "decrease"]>>
     \o [k \in DOMAIN inc |->
           Insight("increasing", inc[k].category, inc[k].percentageChange)]
     \o [k \in DOMAIN dec |->
           Insight("decreasing", dec[k].category, dec[k].percentageChange)]

\* The result object of analyzeSpendingPatterns from the rows of the
\* aggregation and the clock.
AnalyzeRows(rs, now) ==
  LET ts == totalsByMonth(rs)
      o == OverallTrend([k \in DOMAIN ts |-> ts[k].total])
  IN [analysisDate |-> now,
      overallTrend |-> o.trend,
      overallPercentageChange |-> o.percentageChange,
      categoryTrends |-> categoryTrends(rs),
      monthlyTotals |-> ts,
      insights |-> insights(rs),
      hasEnoughData |-> Len(sortedMonthlyData(rs)) >= 3]

\* ------------------------- services/analyticsService.js: the trend analysis
\* Variant of AnalyzeMark whose processing key does not carry the user id:
\* one marker for all users.
AnalyzeMarkGlobal ==
  /\ LET u == Head(queue).userId IN
       /\ Consume(CALCULATE_PATTERNS,
                  <<Handler(CALCULATE_PATTERNS, u, "load", AckOnDelivery, 0, {})>>)
       /\ IF redisUp
            THEN /\ processing' = [v \in Users |-> TRUE]
                 /\ leaseNewer' = [leaseNewer EXCEPT ![u] = IsPresent(patterns[u])]
            ELSE UNCHANGED <<processing, leaseNewer>>
  /\ UNCHANGED <<db, redisUp, monthly, summary, patterns, reqs, issued, polled,
                 pollVars>>
  /\ UNCHANGED <<storeVars, answer, sessions, client>>

\* case CALCULATE_PATTERNS: analyzeSpendingPatterns starts with
\* markSpendingPatternsProcessing(userId): set(processingKey, "true", EX 300);
\* a Redis failure is caught inside it and the analysis goes on.
AnalyzeMark ==
  /\ LET u == Head(queue).userId IN
       /\ Consume(CALCULATE_PATTERNS,
                  <<Handler(CALCULATE_PATTERNS, u, "load", AckOnDelivery, 0, {})>>)
       /\ IF redisUp
            THEN /\ processing' = [processing EXCEPT ![u] = TRUE]
                 /\ leaseNewer' = [leaseNewer EXCEPT ![u] = IsPresent(patterns[u])]
            ELSE UNCHANGED <<processing, leaseNewer>>
  /\ UNCHANGED <<db, redisUp, monthly, summary, patterns, reqs, issued, polled,
                 pollVars>>
  /\ UNCHANGED <<storeVars, answer, sessions, client>>

\* Variant of Analysis that adds the insights found to those of the result in
\* the cache.
AnalysisAppends(u) ==
  LET res == AnalyzeRows(Window(rows[u], clock), clock)
  IN [ver |-> db[u],
      res |-> IF IsPresent(patterns[u])
                THEN [res EXCEPT !.insights = patterns[u][1].res.insights \o @]
                ELSE res]

\* What analyzeSpendingPatterns(userId) computes at this moment: the result
\* object over the rows of the six-month window; ver is the state of the
\* store it was read from.
Analysis(u) ==
  [ver |-> db[u], res |-> AnalyzeRows(Window(rows[u], clock), clock)]

\* Variant of AnalyzeLoad whose failure path clears the processing marker.
AnalyzeLoadClearsMarker(i) ==
  /\ handlers[i].type = CALCULATE_PATTERNS /\ handlers[i].pc = "load"
  /\ \E ok \in BOOLEAN :
       IF ok
         THEN /\ Continue(i, [handlers[i] EXCEPT
                                !.pc = "set", !.val = Analysis(handlers[i].user)])
              /\ UNCHANGED <<processing, leaseNewer>>
         ELSE /\ Finish(i)
              /\ processing' = [processing EXCEPT ![handlers[i].user] = FALSE]
              /\ leaseNewer' = [leaseNewer EXCEPT ![handlers[i].user] = FALSE]
  /\ UNCHANGED <<db, redisUp, monthly, summary, patterns, queue, reqs, issued,
                 polled, pollVars>>
  /\ UNCHANGED <<storeVars, answer, sessions, client>>

\* User.findById(userId) and Expense.aggregate over the six-month window,
\* then the computation of the result (pure, no await): the result is a
\* function of the store state read.  ok = FALSE: the user is missing or a
\* store call fails; the error is logged and rethrown by
\* analyzeSpendingPatterns, and caught and logged by the worker's case
\* CALCULATE_PATTERNS.
AnalyzeLoad(i) ==
  /\ handlers[i].type = CALCULATE_PATTERNS /\ handlers[i].pc = "load"
  /\ \E ok \in BOOLEAN :
       IF ok
         THEN Continue(i, [handlers[i] EXCEPT
                             !.pc = "set", !.val = Analysis(handlers[i].user)])
         ELSE Finish(i)
  /\ UNCHANGED <<db, redisUp, cacheVars, queue, reqs, issued, polled, pollVars>>
  /\ UNCHANGED <<storeVars, answer, sessions, client>>

\* Variant of StoreSet that writes the result field by field and leaves the
\* monthly totals of an entry that is already there.
StoreSetByField(i) ==
  /\ handlers[i].type = CALCULATE_PATTERNS /\ handlers[i].pc = "set"
  /\ IF redisUp
       THEN /\ LET u == handlers[i].user
                   val == handlers[i].val IN
               patterns' = [patterns EXCEPT ![u] =
                 IF IsPresent(patterns[u])
                   THEN Present([val EXCEPT !.res.monthlyTotals =
                                              patterns[u][1].res.monthlyTotals])
                   ELSE Present(val)]
            /\ leaseNewer' = [leaseNewer EXCEPT ![handlers[i].user] = FALSE]
            /\ Continue(i, [handlers[i] EXCEPT !.pc = "del"])
       ELSE /\ Finish(i)
            /\ UNCHANGED <<patterns, leaseNewer>>
  /\ UNCHANGED <<db, redisUp, monthly, summary, processing, queue, reqs, issued,
                 polled, pollVars>>
  /\ UNCHANGED <<storeVars, answer, sessions, client>>

\* storeSpendingPatterns, first command: set(cacheKey, JSON, EX 86400).  A
\* failure is caught inside storeSpendingPatterns (returns false, which
\* analyzeSpendingPatterns ignores).
StoreSet(i) ==
  /\ handlers[i].type = CALCULATE_PATTERNS /\ handlers[i].pc = "set"
  /\ IF redisUp
       THEN /\ patterns' = [patterns EXCEPT
                              ![handlers[i].user] = Present(handlers[i].val)]
            /\ leaseNewer' = [leaseNewer EXCEPT ![handlers[i].user] = FALSE]
            /\ Continue(i, [handlers[i] EXCEPT !.pc = "del"])
       ELSE /\ Finish(i)
            /\ UNCHANGED <<patterns, leaseNewer>>
  /\ UNCHANGED <<db, redisUp, monthly, summary, processing, queue, reqs, issued,
                 polled, pollVars>>
  /\ UNCHANGED <<storeVars, answer, sessions, client>>

\* Variant of StoreDel that returns without deleting the processing marker.
StoreDelKeepsMarker(i) ==
  /\ handlers[i].type = CALCULATE_PATTERNS /\ handlers[i].pc = "del"
  /\ Finish(i)
  /\ UNCHANGED <<db, redisUp, cacheVars, queue, reqs, issued, polled, pollVars>>
  /\ UNCHANGED <<storeVars, answer, sessions, client>>

\* storeSpendingPatterns, second command: del(processingKey); return true.
StoreDel(i) ==
  /\ handlers[i].type = CALCULATE_PATTERNS /\ handlers[i].pc = "del"
  /\ IF redisUp
       THEN /\ processing' = [processing EXCEPT ![handlers[i].user] = FALSE]
            /\ leaseNewer' = [leaseNewer EXCEPT ![handlers[i].user] = FALSE]
       ELSE UNCHANGED <<processing, leaseNewer>>
  /\ Finish(i)
  /\ UNCHANGED <<db, redisUp, monthly, summary, patterns, queue, reqs, issued,
                 polled, pollVars>>
  /\ UNCHANGED <<storeVars, answer, sessions, client>>

\* ------------------------------------------------- the worker process ends
\* The messages of the handlers hs that were never acknowledged: the broker
\* requeues them when the channel of the worker is gone.
Requeued(hs) ==
  LET un == SelectSeq(hs, LAMBDA h : ~h.acked) IN
  [k \in 1..Len(un) |-> [type |-> un[k].type, userId |-> un[k].user]]

\* The worker process ends with handlers in flight (it is killed, or SIGINT:
\* its handler closes the store connection and calls process.exit).
WorkerExit ==
  /\ handlers # <<>>
  /\ handlers' = <<>>
  /\ queue' = Requeued(handlers) \o queue
  /\ UNCHANGED <<db, redisUp, cacheVars, reqs, issued, polled, pollVars>>
  /\ UNCHANGED <<storeVars, answer, sessions, client>>

\* ------------------------------------------------ Redis expiry (EX ttl)
\* monthly_summary: EX 3600.
ExpireMonthly ==
  /\ \E u \in Users, m \in Months :
       /\ IsPresent(monthly[u][m])
       /\ monthly' = [monthly EXCEPT ![u][m] = Absent]
  /\ UNCHANGED <<db, redisUp, summary, patterns, processing, leaseNewer, queue,
                 handlers, reqs, issued, polled, pollVars>>
  /\ UNCHANGED <<storeVars, answer, sessions, client>>

\* analytics_summary: EX 3600.
ExpireSummary ==
  /\ \E u \in Users :
       /\ IsPresent(summary[u])
       /\ summary' = [summary EXCEPT ![u] = Absent]
  /\ UNCHANGED <<db, redisUp, monthly, patterns, processing, leaseNewer, queue,
                 handlers, reqs, issued, polled, pollVars>>
  /\ UNCHANGED <<storeVars, answer, sessions, client>>

\* spending_patterns_processing: EX 300.
ExpireMarker ==
  /\ \E u \in Users :
       /\ processing[u]
       /\ processing' = [processing EXCEPT ![u] = FALSE]
       /\ leaseNewer' = [leaseNewer EXCEPT ![u] = FALSE]
  /\ UNCHANGED <<db, redisUp, monthly, summary, patterns, queue, handlers, reqs,
                 issued, polled, pollVars>>
  /\ UNCHANGED <<storeVars, answer, sessions, client>>

\* A storeSpendingPatterns call of u is between its set and its del.
Storing(u) ==
  \E i \in 1..Len(handlers) : handlers[i].user = u /\ handlers[i].pc = "del"

\* spending_patterns: EX 86400.  The TTLs order the expiries: a marker (300 s)
\* that is older than the result entry (86400 s) expires before it, and the
\* entry outlives the del that follows its set in storeSpendingPatterns.
ExpireResult ==
  /\ \E u \in Users :
       /\ IsPresent(patterns[u])
       /\ processing[u] => leaseNewer[u]
       /\ ~Storing(u)
       /\ patterns' = [patterns EXCEPT ![u] = Absent]
       /\ leaseNewer' = [leaseNewer EXCEPT ![u] = FALSE]
  /\ UNCHANGED <<db, redisUp, monthly, summary, processing, queue, handlers,
                 reqs, issued, polled, pollVars>>
  /\ UNCHANGED <<storeVars, answer, sessions, client>>

\* ------------------------------------------------------------------ Next
\* The whole system: API process, worker process, Redis, RabbitMQ.
Next ==
  \/ RedisFails
  \/ RedisRecovers
  \/ \E u \in Users : PostSave(u)
  \/ \E u \in Users : PutDeleteSave(u)
  \/ \E r \in BagToSet(reqs) : MutKeys(r)
  \/ \E r \in BagToSet(reqs) : MutDel(r)
  \/ \E r \in BagToSet(reqs) : MutPublish(r)
  \/ \E u \in Users : MonthlyGet(u)
  \/ \E u \in Users : SummaryGet(u)
  \/ \E r \in BagToSet(reqs) : ReadAggregate(r)
  \/ \E r \in BagToSet(reqs) : ReadSet(r)
  \/ \E u \in Users : PatternsGet(u)
  \/ \E r \in BagToSet(reqs) : PatternsPublish(r)
  \/ \E u \in Users : StatusGetResult(u)
  \/ \E r \in BagToSet(reqs) : StatusGetMarker(r)
  \/ InvKeys
  \/ \E i \in 1..Len(handlers) : InvDelMonthly(i)
  \/ \E i \in 1..Len(handlers) : InvDelSummary(i)
  \/ AnalyzeMark
  \/ \E i \in 1..Len(handlers) : AnalyzeLoad(i)
  \/ \E i \in 1..Len(handlers) : StoreSet(i)
  \/ \E i \in 1..Len(handlers) : StoreDel(i)
  \/ WorkerExit
  \/ ExpireMonthly
  \/ ExpireSummary
  \/ ExpireMarker
  \/ ExpireResult

Spec == Init /\ [][Next]_vars

\* The aggregate cache alone: the record writes, the cached summaries and the
\* NEW/UPDATE/DELETE_EXPENSE jobs.  No request of the analysis is sent.
NextCache ==
  \/ RedisFails
  \/ RedisRecovers
  \/ \E u \in Users : PostSave(u)
  \/ \E u \in Users : PutDeleteSave(u)
  \/ \E r \in BagToSet(reqs) : MutKeys(r)
  \/ \E r \in BagToSet(reqs) : MutDel(r)
  \/ \E r \in BagToSet(reqs) : MutPublish(r)
  \/ \E u \in Users : MonthlyGet(u)
  \/ \E u \in Users : SummaryGet(u)
  \/ \E r \in BagToSet(reqs) : ReadAggregate(r)
  \/ \E r \in BagToSet(reqs) : ReadSet(r)
  \/ InvKeys
  \/ \E i \in 1..Len(handlers) : InvDelMonthly(i)
  \/ \E i \in 1..Len(handlers) : InvDelSummary(i)
  \/ WorkerExit
  \/ ExpireMonthly
  \/ ExpireSummary

SpecCache == Init /\ [][NextCache]_vars

\* No request is in flight in the API process.
Idle == reqs = EmptyBag

\* The aggregate cache with requests sent one at a time: a request is sent
\* when the previous one has been answered.  The worker runs alongside.
NextCacheSeq ==
  \/ RedisFails
  \/ RedisRecovers
  \/ \E u \in Users : Idle /\ PostSave(u)
  \/ \E u \in Users : Idle /\ PutDeleteSave(u)
  \/ \E r \in BagToSet(reqs) : MutKeys(r)
  \/ \E r \in BagToSet(reqs) : MutDel(r)
  \/ \E r \in BagToSet(reqs) : MutPublish(r)
  \/ \E u \in Users : Idle /\ MonthlyGet(u)
  \/ \E u \in Users : Idle /\ SummaryGet(u)
  \/ \E r \in BagToSet(reqs) : ReadAggregate(r)
  \/ \E r \in BagToSet(reqs) : ReadSet(r)
  \/ InvKeys
  \/ \E i \in 1..Len(handlers) : InvDelMonthly(i)
  \/ \E i \in 1..Len(handlers) : InvDelSummary(i)
  \/ WorkerExit
  \/ ExpireMonthly
  \/ ExpireSummary

SpecCacheSeq == Init /\ [][NextCacheSeq]_vars

\* The spending-pattern analysis alone: GET /patterns, GET /patterns/status
\* and the CALCULATE_PATTERNS jobs.  No record is written.
NextLease ==
  \/ RedisFails
  \/ RedisRecovers
  \/ \E u \in Users : PatternsGet(u)
  \/ \E r \in BagToSet(reqs) : PatternsPublish(r)
  \/ \E u \in Users : StatusGetResult(u)
  \/ \E r \in BagToSet(reqs) : StatusGetMarker(r)
  \/ AnalyzeMark
  \/ \E i \in 1..Len(handlers) : AnalyzeLoad(i)
  \/ \E i \in 1..Len(handlers) : StoreSet(i)
  \/ \E i \in 1..Len(handlers) : StoreDel(i)
  \/ WorkerExit
  \/ ExpireMarker
  \/ ExpireResult

SpecLease == Init /\ [][NextLease]_vars

\* Logins, requests that carry a token, and logouts.
NextAuth ==
  \/ RedisFails
  \/ RedisRecovers
  \/ \E t \in Tokens : Login(t)
  \/ \E t \in Tokens : TokenExpires(t)
  \/ \E t \in Tokens : AuthKeyExpires(t)
  \/ \E t \in Tokens, route \in {"logout", "other"} : AuthGet(t, route)
  \/ \E t \in Tokens : AuthVerify(t)
  \/ \E t \in Tokens : LogoutDel(t)

SpecAuth == Init /\ [][NextAuth]_vars

\* The readers: GET /summary/monthly, GET /summary and GET /patterns, with the
\* writes that change what they read and the worker that computes the
\* patterns.
NextReaders ==
  \/ RedisFails
  \/ RedisRecovers
  \/ \E u \in Users : PostSave(u)
  \/ \E r \in BagToSet(reqs) : MutKeys(r)
  \/ \E r \in BagToSet(reqs) : MutDel(r)
  \/ \E r \in BagToSet(reqs) : MutPublish(r)
  \/ \E u \in Users : MonthlyGet(u)
  \/ \E u \in Users : SummaryGet(u)
  \/ \E r \in BagToSet(reqs) : ReadAggregate(r)
  \/ \E r \in BagToSet(reqs) : ReadSet(r)
  \/ \E u \in Users : PatternsGet(u)
  \/ \E r \in BagToSet(reqs) : PatternsPublish(r)
  \/ InvKeys
  \/ \E i \in 1..Len(handlers) : InvDelMonthly(i)
  \/ \E i \in 1..Len(handlers) : InvDelSummary(i)
  \/ AnalyzeMark
  \/ \E i \in 1..Len(handlers) : AnalyzeLoad(i)
  \/ \E i \in 1..Len(handlers) : StoreSet(i)
  \/ \E i \in 1..Len(handlers) : StoreDel(i)

SpecReaders == Init /\ [][NextReaders]_vars

\* Writers and readers of the aggregate cache with the worker, Redis always
\* up: what remains is the interleaving of the requests' awaits.
NextRace ==
  \/ \E u \in Users : PostSave(u)
  \/ \E r \in BagToSet(reqs) : MutKeys(r)
  \/ \E r \in BagToSet(reqs) : MutDel(r)
  \/ \E r \in BagToSet(reqs) : MutPublish(r)
  \/ \E u \in Users : MonthlyGet(u)
  \/ \E u \in Users : SummaryGet(u)
  \/ \E r \in BagToSet(reqs) : ReadAggregate(r)
  \/ \E r \in BagToSet(reqs) : ReadSet(r)
  \/ InvKeys
  \/ \E i \in 1..Len(handlers) : InvDelMonthly(i)
  \/ \E i \in 1..Len(handlers) : InvDelSummary(i)

SpecRace == Init /\ [][NextRace]_vars

\* The routes and the worker over a cache in which a user has either nothing
\* or every entry: both monthly summaries, the analytics summary and the
\* result of an analysis over no expense.
InitFilled ==
  /\ \E full \in SUBSET Users :
       /\ monthly = [u \in Users |-> [m \in Months |->
                       IF u \in full THEN Present(0) ELSE Absent]]
       /\ summary = [u \in Users |-> IF u \in full THEN Present(0) ELSE Absent]
       /\ patterns = [u \in Users |->
                        IF u \in full
                          THEN Present([ver |-> 0, res |-> AnalyzeRows(<<>>, 0)])
                          ELSE Absent]
  /\ db = [u \in Users |-> 0]
  /\ redisUp = TRUE
  /\ processing = [u \in Users |-> FALSE]
  /\ leaseNewer = [u \in Users |-> FALSE]
  /\ queue = <<>>
  /\ handlers = <<>>
  /\ reqs = EmptyBag
  /\ issued = 0
  /\ polled = 0
  /\ lastPoll = [u \in Users |-> [status |-> "none", data |-> Absent]]
  /\ trigSince = [u \in Users |-> FALSE]
  /\ answer = NoAnswer
  /\ sessions = [t \in Tokens |-> NoSession]
  /\ client = NoClient
  /\ rows = [u \in Users |-> <<>>]
  /\ clock = 0

SpecFilled == InitFilled /\ [][NextReaders]_vars

\* The worker starts on a backlog of mutation jobs: every job in the queue was
\* published by a request that wrote a record of its user, and the cache holds
\* whatever summaries earlier reads have left in it.
JobsOf(q, u) == Len(SelectSeq(q, LAMBDA j : j.userId = u))

Backlogs ==
  UNION {[1..n -> [type : MutationTypes, userId : Users]] : n \in 1..MaxJobs}

InitInval ==
  /\ queue \in Backlogs
  /\ db = [u \in Users |-> JobsOf(queue, u)]
  /\ monthly \in [Users -> [Months -> {Absent, Present(0)}]]
  /\ summary \in [Users -> {Absent, Present(0)}]
  /\ redisUp = TRUE
  /\ patterns = [u \in Users |-> Absent]
  /\ processing = [u \in Users |-> FALSE]
  /\ leaseNewer = [u \in Users |-> FALSE]
  /\ handlers = <<>>
  /\ reqs = EmptyBag
  /\ issued = 0
  /\ polled = 0
  /\ lastPoll = [u \in Users |-> [status |-> "none", data |-> Absent]]
  /\ trigSince = [u \in Users |-> FALSE]
  /\ answer = NoAnswer
  /\ sessions = [t \in Tokens |-> NoSession]
  /\ client = NoClient
  /\ rows = [u \in Users |-> <<>>]
  /\ clock = 0

\* The worker alone on the backlog, Redis answering: the handlers of the
\* mutation jobs, interleaved as the consumer starts them.
NextInval ==
  \/ InvKeys
  \/ \E i \in 1..Len(handlers) : InvDelMonthly(i)
  \/ \E i \in 1..Len(handlers) : InvDelSummary(i)

SpecInval == InitInval /\ [][NextInval]_vars

\* The worker on a backlog that holds a message of a type it does not know
\* (the queue is shared: any client of the broker can publish to it), among
\* jobs of the routes.
ForeignBacklogs ==
  {q \in UNION {[1..n -> [type : MutationTypes \cup {"SEND_REPORT"},
                          userId : Users]] : n \in 1..MaxJobs} :
     \E k \in DOMAIN q : q[k].type \notin KnownTypes}

InitForeign ==
  /\ queue \in ForeignBacklogs
  /\ db = [u \in Users |->
             Len(SelectSeq(queue, LAMBDA j : j.userId = u /\ j.type \in MutationTypes))]
  /\ monthly \in [Users -> [Months -> {Absent, Present(0)}]]
  /\ summary \in [Users -> {Absent, Present(0)}]
  /\ redisUp = TRUE
  /\ patterns = [u \in Users |-> Absent]
  /\ processing = [u \in Users |-> FALSE]
  /\ leaseNewer = [u \in Users |-> FALSE]
  /\ handlers = <<>>
  /\ reqs = EmptyBag
  /\ issued = 0
  /\ polled = 0
  /\ lastPoll = [u \in Users |-> [status |-> "none", data |-> Absent]]
  /\ trigSince = [u \in Users |-> FALSE]
  /\ answer = NoAnswer
  /\ sessions = [t \in Tokens |-> NoSession]
  /\ client = NoClient
  /\ rows = [u \in Users |-> <<>>]
  /\ clock = 0

NextForeign ==
  \/ SkipUnknown
  \/ InvKeys
  \/ \E i \in 1..Len(handlers) : InvDelMonthly(i)
  \/ \E i \in 1..Len(handlers) : InvDelSummary(i)

SpecForeign == InitForeign /\ [][NextForeign]_vars

\* ------------------------------------------- the analysis of a given store
\* The expense rows of one user: "Rent" is paid every month, "Food" is bought
\* in the months where its amount is not 0 (an expense of the routes has an
\* amount above 0, so a month without a purchase is a month without a row).
Amounts == {0, 100, 110, 150}

Row(m, c, total) == [month |-> m, category |-> c, total |-> total]

SeriesRows(food) ==
  Concat([m \in DOMAIN food |->
            <<Row(m, "Rent", 100)>>
            \o (IF food[m] > 0 THEN <<Row(m, "Food", food[m])>> ELSE <<>>)])

\* Series of up to MaxMonths months, and of one month more with one amount,
\* where a category can have all its purchases before the months compared.
FoodSeries ==
  UNION {[1..n -> Amounts] : n \in 1..MaxMonths}
    \cup [1..(MaxMonths + 1) -> {0, 100}]

\* The state of the worker before the jobs q.
Pending(q) ==
  /\ db = [v \in Users |-> 0]
  /\ redisUp = TRUE
  /\ monthly = [v \in Users |-> [m \in Months |-> Absent]]
  /\ summary = [v \in Users |-> Absent]
  /\ patterns = [v \in Users |-> Absent]
  /\ processing = [v \in Users |-> FALSE]
  /\ leaseNewer = [v \in Users |-> FALSE]
  /\ queue = q
  /\ handlers = <<>>
  /\ reqs = EmptyBag
  /\ issued = 0
  /\ polled = 0
  /\ lastPoll = [v \in Users |-> [status |-> "none", data |-> Absent]]
  /\ trigSince = [v \in Users |-> FALSE]
  /\ answer = NoAnswer
  /\ sessions = [t \in Tokens |-> NoSession]
  /\ client = NoClient

PatternsJob(u) == [type |-> CALCULATE_PATTERNS, userId |-> u]
JobPending(u) == Pending(<<PatternsJob(u)>>)

InitSeries ==
  /\ JobPending("u1")
  /\ \E food \in FoodSeries :
       rows = [u \in Users |-> IF u = "u1" THEN SeriesRows(food) ELSE <<>>]
  /\ clock = MaxMonths + 1

\* The worker alone on the job.
NextAnalysis ==
  \/ AnalyzeMark
  \/ \E i \in 1..Len(handlers) : AnalyzeLoad(i)
  \/ \E i \in 1..Len(handlers) : StoreSet(i)
  \/ \E i \in 1..Len(handlers) : StoreDel(i)

SpecSeries == InitSeries /\ [][NextAnalysis]_vars

\* A user without an expense in the six-month window (none at all, or one
\* dated before it) next to a user with expenses in every month, a job
\* pending for each, and a client polling the status.
InitNoData ==
  /\ Pending(<<PatternsJob("u1"), PatternsJob("u2")>>)
  /\ \E old \in {<<>>, <<Row(1, "Food", 100)>>}, a \in {100, 150} :
       rows = [u \in Users |->
                 IF u = "u1" THEN old
                 ELSE SeriesRows([m \in 1..MaxMonths |-> a])]
  /\ clock = MaxMonths + 2

NextNoData ==
  \/ NextAnalysis
  \/ \E u \in Users : StatusGetResult(u)
  \/ \E r \in BagToSet(reqs) : StatusGetMarker(r)

SpecNoData == InitNoData /\ [][NextNoData]_vars

\* Expenses with months off: in each month Rent is paid or not and Food is
\* bought or not, so that a month can pass without any expense.
SparseRows(rent, food) ==
  Concat([m \in DOMAIN rent |->
            (IF rent[m] > 0 THEN <<Row(m, "Rent", rent[m])>> ELSE <<>>)
            \o (IF food[m] > 0 THEN <<Row(m, "Food", food[m])>> ELSE <<>>)])

InitSparse ==
  /\ JobPending("u1")
  /\ \E rent \in [1..MaxMonths -> {0, 100}], food \in [1..MaxMonths -> {0, 150}] :
       rows = [u \in Users |-> IF u = "u1" THEN SparseRows(rent, food) ELSE <<>>]
  /\ clock = MaxMonths

SpecSparse == InitSparse /\ [][NextAnalysis]_vars

\* The categories of the Expense schema, by name, and the first MaxCategories
\* of them.
CategoryNames ==
  <<"debt", "education", "entertainment", "food", "healthcare", "housing",
    "other", "personal", "savings", "transportation", "utilities">>
Categories == {CategoryNames[k] : k \in 1..MaxCategories}
NameRank(c) == CHOOSE k \in DOMAIN CategoryNames : CategoryNames[k] = c

\* Four months of expenses in some of the categories: 100 in the first month
\* and the same amount r in each of the three recent months, so that the
\* category changes by r - 100 percent.  order is the order in which the
\* store returns the groups of a month (the pipeline sorts by year and month
\* only).
RecentAmounts == {50, 80, 120, 150}

StoreOrders ==
  {o \in UNION {[1..n -> Categories] : n \in 1..MaxCategories} :
     \A j, k \in DOMAIN o : j # k => o[j] # o[k]}

ProfileRows(order, recent) ==
  Concat([m \in 1..4 |->
            [k \in DOMAIN order |->
               Row(m, order[k], IF m = 1 THEN 100 ELSE recent[k])]])

InitInsights ==
  /\ JobPending("u1")
  /\ \E order \in StoreOrders :
       \E recent \in [DOMAIN order -> RecentAmounts] :
         rows = [u \in Users |->
                   IF u = "u1" THEN ProfileRows(order, recent) ELSE <<>>]
  /\ clock = 4

SpecInsights == InitInsights /\ [][NextAnalysis]_vars

\* The same job CALCULATE_PATTERNS delivered twice (the trigger route
\* published it twice, or the broker redelivered it) over expenses that do
\* not change, while time passes: a month begins.  The oldest month of the
\* store is the month the window is about to leave, or the one after.
Tick ==
  /\ clock < MaxMonths + 1 + MaxTicks
  /\ clock' = clock + 1
  /\ UNCHANGED <<db, redisUp, cacheVars, queue, handlers, reqs, issued, polled,
                 pollVars, rows, answer, sessions, client>>

InitReplay ==
  /\ Pending(<<PatternsJob("u1"), PatternsJob("u1")>>)
  /\ \E food \in [1..MaxMonths -> {100, 150}], oldest \in {1, 2} :
       rows = [u \in Users |->
                 IF u = "u1"
                   THEN SelectSeq(SeriesRows(food), LAMBDA r : r.month >= oldest)
                   ELSE <<>>]
  /\ clock = MaxMonths + 1

NextReplay == NextAnalysis \/ Tick

SpecReplay == InitReplay /\ [][NextReplay]_vars

\* ------------------------------------------------------- config/redis.js
\* connectRedis() up to its await, on client cl: if (isConnected) return
\* redisClient; else redisClient.connect().  at: where the caller stands
\* afterwards.  What connect() does on a client that is already opening or
\* open is the library's choice and not in this repository: it throws
\* (tolerated = FALSE) or joins the connection under way.
connectRedis(cl, tolerated) ==
  IF cl.isConnected THEN [cl |-> cl, at |-> "done"]
  ELSE IF cl.socket = "closed"
    THEN [cl |-> [cl EXCEPT !.socket = "opening"], at |-> "await"]
  ELSE [cl |-> [cl EXCEPT !.reentered = TRUE],
        at |-> IF tolerated THEN "await" ELSE "failed"]

\* server.js at module load: connectRedis().then(..).catch(process.exit(1)).
LoadConnect ==
  /\ ~client.exited /\ client.load = "idle"
  /\ \E tolerated \in BOOLEAN :
       LET o == connectRedis(client, tolerated) IN
       client' = [o.cl EXCEPT !.load = o.at, !.exited = (o.at = "failed")]
  /\ UNCHANGED <<appVars, redisUp, sessions>>

\* startServer(), called at the end of the same script: await connectRedis();
\* its catch calls process.exit(1).
StartConnect ==
  /\ ~client.exited /\ client.load # "idle" /\ client.start = "idle"
  /\ \E tolerated \in BOOLEAN :
       LET o == connectRedis(client, tolerated) IN
       client' = [o.cl EXCEPT !.start = o.at, !.exited = (o.at = "failed")]
  /\ UNCHANGED <<appVars, redisUp, sessions>>

\* The script of server.js has run to its end: events are delivered.
Running == ~client.exited /\ client.start # "idle"

\* redisClient.on("ready"): isConnected = true.
ClientReady ==
  /\ Running /\ client.socket \in {"opening", "reconnecting"}
  /\ client' = [client EXCEPT !.socket = "ready", !.isConnected = TRUE]
  /\ UNCHANGED <<appVars, redisUp, sessions>>

\* redisClient.on("error"): isConnected = false; the client reconnects by
\* itself and stays open.
ClientError ==
  /\ Running /\ client.socket = "ready"
  /\ client' = [client EXCEPT !.socket = "reconnecting", !.isConnected = FALSE]
  /\ UNCHANGED <<appVars, redisUp, sessions>>

\* process.on("SIGTERM"): if (isConnected) await redisClient.quit(); the
\* "end" event sets isConnected = false.
ClientQuit ==
  /\ Running /\ client.isConnected /\ client.socket = "ready"
  /\ client' = [client EXCEPT !.socket = "closed", !.isConnected = FALSE]
  /\ UNCHANGED <<appVars, redisUp, sessions>>

\* await redisClient.connect() returns in connectRedis: isConnected = true;
\* return redisClient.  In startServer: app.listen.
LoadConnected ==
  /\ Running /\ client.load = "await" /\ client.socket = "ready"
  /\ client' = [client EXCEPT !.load = "done", !.isConnected = TRUE]
  /\ UNCHANGED <<appVars, redisUp, sessions>>

StartConnected ==
  /\ Running /\ client.start = "await" /\ client.socket = "ready"
  /\ client' = [client EXCEPT !.start = "done", !.isConnected = TRUE]
  /\ UNCHANGED <<appVars, redisUp, sessions>>

\* getRedisClient() of request k, once the server listens:
\* if (!isConnected) await connectRedis(); a throw goes to the catch of the
\* caller.
GetRedisClient(k) ==
  /\ ~client.exited /\ client.start = "done" /\ client.gets[k] = "idle"
  /\ \E tolerated \in BOOLEAN :
       LET o == connectRedis(client, tolerated) IN
       client' = [o.cl EXCEPT !.gets[k] = o.at]
  /\ UNCHANGED <<appVars, redisUp, sessions>>

GetConnected(k) ==
  /\ Running /\ client.gets[k] = "await" /\ client.socket = "ready"
  /\ client' = [client EXCEPT !.gets[k] = "done", !.isConnected = TRUE]
  /\ UNCHANGED <<appVars, redisUp, sessions>>

NextConnect ==
  \/ LoadConnect
  \/ StartConnect
  \/ ClientReady
  \/ ClientError
  \/ ClientQuit
  \/ LoadConnected
  \/ StartConnected
  \/ \E k \in 1..MaxRequests : GetRedisClient(k)
  \/ \E k \in 1..MaxRequests : GetConnected(k)

SpecConnect == Init /\ [][NextConnect]_vars

\* ============================================================ properties

\* C1: when a create, update or delete request of user U has completed, every
\* monthly_summary:{U}:* key and the key analytics_summary:{U} read absent
\* (and stay so until a recomputation writes the key again).
C1_MutationInvalidatesAll ==
  [][\A r \in BagToSet(reqs) :
       MutPublish(r) =>
         /\ \A m \in Months : ~IsPresent(monthly'[r.user][m])
         /\ ~IsPresent(summary'[r.user])]_vars

\* C2: the answer of GET /patterns/status for U is a function of two cache
\* facts read at the time of the poll: "completed" with the result as payload
\* whenever the result entry exists, whether or not the marker exists too;
\* otherwise "processing" when the marker exists; otherwise "not_started".
C2_StatusFromTwoReads ==
  [][\A u \in Users :
       /\ (StatusGetResult(u) /\ redisUp /\ IsPresent(patterns[u]))
            => lastPoll'[u] = [status |-> "completed", data |-> patterns[u]]
       /\ \A r \in BagToSet(reqs) :
            (StatusGetMarker(r) /\ r.user = u /\ redisUp)
              => lastPoll'[u] =
                   [status |-> IF processing[u] THEN "processing"
                                                ELSE "not_started",
                    data |-> Absent]]_vars

\* C2, its case: a poll of u1 was answered "completed" while the only job of
\* the run was between its write of the result and its delete of the marker,
\* the marker still set.
C2_CompletedUnderMarker ==
  /\ lastPoll["u1"].status = "completed"
  /\ lastPoll["u1"].data = patterns["u1"]
  /\ processing["u1"]
  /\ Storing("u1")
  /\ issued = 1

\* C3: two consecutive polls of U never read "completed" and then "processing"
\* unless a GET /patterns request enqueued a CALCULATE_PATTERNS job between
\* the two answers.
C3_NoCompletedThenProcessing ==
  [][\A u \in Users :
       (lastPoll[u].status = "completed" /\ lastPoll'[u].status = "processing")
         => trigSince[u]]_vars

\* C4: GET /patterns on a miss sets the processing marker when it enqueues the
\* job: once the trigger has returned the status of U does not read
\* "not_started".
C4_TriggerSetsMarker ==
  [][\A r \in BagToSet(reqs) :
       PatternsPublish(r) =>
         StatusAnswer(patterns'[r.user], processing'[r.user]).status
           # "not_started"]_vars

\* C5: a successful storeSpendingPatterns writes the result and deletes the
\* marker as one logical step: in every state between the write and the
\* delete the status of U reads "completed", and when the delete has run the
\* result exists and the marker is absent.
C5_StoreThenRelease ==
  /\ [](\A u \in Users :
          Storing(u) =>
            StatusAnswer(patterns[u], processing[u]).status = "completed")
  /\ [][\A i \in 1..Len(handlers) :
          (StoreDel(i) /\ redisUp)
            => /\ IsPresent(patterns'[handlers[i].user])
               /\ ~processing'[handlers[i].user]]_vars

\* C5, its case: the job of u1 has run to its end, the result is there and
\* the marker is gone, and a poll of u1 was answered "completed".
C5_StoredAndReleased ==
  /\ IsPresent(patterns["u1"])
  /\ ~processing["u1"]
  /\ handlers = <<>> /\ queue = <<>>
  /\ redisUp
  /\ issued = 1
  /\ lastPoll["u1"].status = "completed"

\* A CALCULATE_PATTERNS job of u is in flight in the worker.
Analyzing(u) ==
  \E i \in 1..Len(handlers) :
    handlers[i].type = CALCULATE_PATTERNS /\ handlers[i].user = u

\* The marker of u is gone while a job of u is in flight and no result exists.
LeaseLapsed(u) == Analyzing(u) /\ ~processing[u] /\ ~IsPresent(patterns[u])

\* GET /patterns of u goes on to enqueue a job.
TriggerAccepted(u) ==
  CopiesIn(Req("PATTERNS", u, "publish", NoMonth, 0, {}), reqs')
    = CopiesIn(Req("PATTERNS", u, "publish", NoMonth, 0, {}), reqs) + 1

\* C6: when the marker of U has expired while the job is in flight and no
\* result exists, a poll reads "not_started", and a further GET /patterns is
\* accepted and enqueues one more CALCULATE_PATTERNS job for U.
C6_LapsedLeaseReadsNotStarted ==
  /\ [][\A r \in BagToSet(reqs) :
          (StatusGetMarker(r) /\ redisUp /\ LeaseLapsed(r.user))
            => lastPoll'[r.user] = [status |-> "not_started", data |-> Absent]]_vars
  /\ [][\A u \in Users :
          (PatternsGet(u) /\ redisUp /\ LeaseLapsed(u)) => TriggerAccepted(u)]_vars
  /\ [][\A r \in BagToSet(reqs) :
          (PatternsPublish(r) /\ Analyzing(r.user))
            => queue' = queue \o <<[type |-> CALCULATE_PATTERNS,
                                    userId |-> r.user]>>]_vars

\* C6, its case: the marker of u1 is gone and no result exists while a job of
\* u1 is in flight; the poll read "not_started" and a second job of u1 has
\* been enqueued since.
C6_DuplicateAfterLapse ==
  /\ LeaseLapsed("u1")
  /\ lastPoll["u1"].status = "not_started"
  /\ trigSince["u1"]
  /\ \E k \in 1..Len(queue) :
       queue[k] = [type |-> CALCULATE_PATTERNS, userId |-> "u1"]

\* C7: there is no failed state.  A computation that throws writes no result
\* and does not delete the marker; the marker goes away by expiry (or by the
\* delete of another, successful computation of the same user), and once it
\* is gone with no result a GET /patterns is accepted again.
C7_FailureLeavesLease ==
  /\ [][\A i \in 1..Len(handlers) :
          (AnalyzeLoad(i) /\ Len(handlers') < Len(handlers))
            => /\ patterns' = patterns
               /\ processing' = processing
               /\ queue' = queue]_vars
  /\ [][\A u \in Users :
          (processing[u] /\ ~processing'[u])
            => \/ ExpireMarker
               \/ \E i \in 1..Len(handlers) :
                    handlers[i].user = u /\ StoreDel(i)]_vars
  /\ [][\A u \in Users :
          (PatternsGet(u) /\ redisUp /\ ~processing[u] /\ ~IsPresent(patterns[u]))
            => TriggerAccepted(u)]_vars
  /\ [](\A u \in Users :
          lastPoll[u].status \in {"none", "not_started", "processing", "completed"})

\* C7, its case: the only job of the run has ended without a result and has
\* left the marker of u1 set; the poll reads "processing".
C7_FailedJobLeftMarker ==
  /\ processing["u1"]
  /\ ~IsPresent(patterns["u1"])
  /\ handlers = <<>> /\ queue = <<>>
  /\ issued = 1
  /\ redisUp
  /\ lastPoll["u1"].status = "processing"
  /\ ~Polling("u1")

\* C8: when a queue handler fails, its message has not been acknowledged: it
\* is still the broker's to redeliver.
C8_FailedHandlerUnacked ==
  [][\A i \in 1..Len(handlers) :
       (AnalyzeLoad(i) /\ Len(handlers') < Len(handlers))
         => ~handlers[i].acked]_vars

\* C9: a message is acknowledged only after its handler has finished: the
\* message of a handler in flight is unacknowledged, and when the worker
\* process ends every job in flight is back in the queue.
C9_AckAfterHandler ==
  /\ [](\A i \in 1..Len(handlers) : ~handlers[i].acked)
  /\ [][WorkerExit => Len(queue') = Len(queue) + Len(handlers)]_vars

\* C10: one worker runs its handlers one at a time: the handler of the next
\* message starts when the previous one has finished, so handlers finish in
\* the order of the queue.
C10_HandlersSequential ==
  /\ [](Len(handlers) <= 1)
  /\ [][Len(handlers') < Len(handlers) => handlers' = Tail(handlers)]_vars

\* C11: the handling of mutation jobs does not depend on their order or type:
\* from any cache state, once the worker has processed the jobs of a backlog
\* (NEW, UPDATE, DELETE in any order, the same job any number of times) every
\* monthly_summary key and the analytics_summary key of each user that had a
\* job is absent, and no key of any other user has been touched.
C11_InvalidationOrderAgnostic ==
  /\ [](queue = <<>> /\ handlers = <<>> =>
          \A u \in Users :
            db[u] > 0 =>
              /\ \A m \in Months : monthly[u][m] = Absent
              /\ summary[u] = Absent)
  /\ [][\A u \in Users :
          (monthly'[u] # monthly[u] \/ summary'[u] # summary[u])
            => \E i \in 1..Len(handlers) : handlers[i].user = u]_vars

\* C11, its case: two jobs of u1 have been processed, the keys of u1 are
\* gone, and u2, who had no job, still has the summaries the run started with.
C11_BacklogProcessed ==
  /\ queue = <<>> /\ handlers = <<>>
  /\ db["u1"] = 2 /\ db["u2"] = 0
  /\ summary["u1"] = Absent
  /\ \A m \in Months : monthly["u1"][m] = Absent
  /\ IsPresent(summary["u2"])
  /\ IsPresent(monthly["u2"]["2024-01"])

\* The mutation requests of u that have written their record and have not
\* finished invalidateMonthlyCache.
Invalidating(u) ==
  BagCardinality([r \in {x \in BagToSet(reqs) :
                           /\ x.kind \in MutationTypes
                           /\ x.user = u
                           /\ x.pc \in {"keys", "del"}} |-> reqs[r]])

\* The mutation jobs of u that are in the queue or with the worker.
MutationJobs(u) ==
  JobsOf(SelectSeq(queue, LAMBDA j : j.type \in MutationTypes), u)
    + Len(SelectSeq(handlers,
                    LAMBDA h : h.type \in MutationTypes /\ h.user = u))

\* C12: a mutating request invalidates before it publishes: no mutation job
\* exists while the invalidation of the request that produced it has not
\* run.  Every job of U stands for a write of U whose request is past its
\* invalidation.
C12_InvalidateBeforePublish ==
  \A u \in Users : MutationJobs(u) + Invalidating(u) <= db[u]

\* C12, its case: one request of u1 has invalidated and published its job
\* while a second request of u1 has written its record and is still
\* invalidating.
C12_JobAndPendingInvalidation ==
  /\ db["u1"] = 2
  /\ JobsOf(queue, "u1") = 1
  /\ Invalidating("u1") = 1

\* ---- the trend analysis
\* The result stored for u, and in it the entry of category c.
Stored(u) == IsPresent(patterns[u])
StoredResult(u) == patterns[u][1].res
StoredTrends(u) ==
  {StoredResult(u).categoryTrends[k] : k \in DOMAIN StoredResult(u).categoryTrends}

\* The claims speak of the last three amounts of a series and of the three
\* before them; sums stand for the averages (both parts have three months
\* when the series has six or more, the earlier part has fewer otherwise).
LastThree(d) == {k \in DOMAIN d : k > Len(d) - 3}
ThreeBefore(d) == {k \in DOMAIN d : k > Len(d) - 6 /\ k <= Len(d) - 3}

RECURSIVE Total(_, _)
Total(d, K) ==
  IF K = {} THEN 0
  ELSE LET k == CHOOSE x \in K : TRUE IN d[k] + Total(d, K \ {k})

\* pc = (recentAvg - previousAvg) / previousAvg * 100, for a fraction pc and
\* previousAvg > 0, without division.
IsPercentageChange(pc, d) ==
  LET R == Total(d, LastThree(d))
      P == Total(d, ThreeBefore(d))
      nR == Cardinality(LastThree(d))
      nP == Cardinality(ThreeBefore(d))
  IN pc[1] * (P * nR) = pc[2] * 100 * (R * nP - P * nR)

\* C14: for a category whose earlier three-month average is above 0, the
\* stored percentageChange is (recentAvg - previousAvg) / previousAvg * 100,
\* and the trend is increasing iff it is above 10, decreasing iff it is
\* below -10 and stable otherwise, exactly 10 and exactly -10 included; 150
\* against 100 is increasing by 50, 80 against 100 decreasing by 20, 100
\* against 98 stable.
C14_ThresholdClassification ==
  /\ \A u \in Users : Stored(u) =>
       \A t \in StoredTrends(u) :
         Total(t.data, ThreeBefore(t.data)) > 0 =>
           /\ IsPercentageChange(t.percentageChange, t.data)
           /\ t.percentageChange[2] > 0
           /\ t.trend = "increasing"
                <=> t.percentageChange[1] > 10 * t.percentageChange[2]
           /\ t.trend = "decreasing"
                <=> t.percentageChange[1] < -10 * t.percentageChange[2]
           /\ t.trend = "stable"
                <=> /\ t.percentageChange[1] <= 10 * t.percentageChange[2]
                    /\ t.percentageChange[1] >= -10 * t.percentageChange[2]
  /\ CategoryTrend(<<100, 100, 100, 150, 150, 150>>).trend = "increasing"
  /\ CategoryTrend(<<100, 100, 100, 150, 150, 150>>).percentageChange = <<50, 1>>
  /\ CategoryTrend(<<100, 100, 100, 80, 80, 80>>).trend = "decreasing"
  /\ CategoryTrend(<<100, 100, 100, 80, 80, 80>>).percentageChange = <<-20, 1>>
  /\ CategoryTrend(<<98, 98, 98, 100, 100, 100>>).trend = "stable"

\* A stored result whose category Food rose by exactly 10 percent and is
\* stable.
C14_ExactlyTenIsStable ==
  /\ Stored("u1")
  /\ \E t \in StoredTrends("u1") :
       /\ t.category = "Food"
       /\ t.data = <<100, 100, 100, 110, 110, 110>>
       /\ t.percentageChange = <<10, 1>>
       /\ t.trend = "stable"

\* C15: for a category series of six months, oldest first, recentAvg is the
\* mean of the last three amounts and previousAvg the mean of the first
\* three: the stored percentageChange is their relative difference in
\* percent; the series 100, 100, 100, 150, 160, 170 gives 60 and increasing.
C15_WindowSplit ==
  /\ \A u \in Users : Stored(u) =>
       \A t \in StoredTrends(u) :
         LET d == t.data IN
         Len(d) = 6 /\ d[1] + d[2] + d[3] > 0 =>
           t.percentageChange[1] * (d[1] + d[2] + d[3])
             = t.percentageChange[2] * 100
                 * ((d[4] + d[5] + d[6]) - (d[1] + d[2] + d[3]))
  /\ CategoryTrend(<<100, 100, 100, 150, 160, 170>>).percentageChange = <<60, 1>>
  /\ CategoryTrend(<<100, 100, 100, 150, 160, 170>>).trend = "increasing"

\* A stored result over six months whose halves differ inside: 360 in the
\* first three months, 450 in the last three.
C15_SixMonthsSplit ==
  /\ Stored("u1")
  /\ \E t \in StoredTrends("u1") :
       /\ t.category = "Food"
       /\ t.data = <<100, 110, 150, 150, 150, 150>>
       /\ t.percentageChange = <<25, 1>>
       /\ t.trend = "increasing"

\* C16: a category whose earlier three-month average is 0 is stable with
\* percentageChange 0 when its recent average is 0 too, and increasing with
\* percentageChange 100 otherwise; the stored percentage is a number, nothing
\* was divided by the 0.
C16_ZeroBaseline ==
  \A u \in Users : Stored(u) =>
    \A t \in StoredTrends(u) :
      (ThreeBefore(t.data) # {} /\ Total(t.data, ThreeBefore(t.data)) = 0) =>
        /\ t.percentageChange[2] # 0
        /\ IF Total(t.data, LastThree(t.data)) = 0
             THEN t.trend = "stable" /\ t.percentageChange = <<0, 1>>
             ELSE t.trend = "increasing" /\ t.percentageChange = <<100, 1>>

\* Stored results with a zero baseline: Food first bought in the last month,
\* and Food bought only in a month before the six compared.
C16_NewCategorySentinel ==
  /\ Stored("u1")
  /\ \E t \in StoredTrends("u1") :
       /\ t.data = <<0, 0, 0, 0, 0, 100>>
       /\ t.trend = "increasing" /\ t.percentageChange = <<100, 1>>

C16_LapsedCategoryStable ==
  /\ Stored("u1")
  /\ \E t \in StoredTrends("u1") :
       /\ t.category = "Food"
       /\ Len(t.data) > 6 /\ t.data[1] = 100
       /\ Total(t.data, LastThree(t.data)) = 0
       /\ t.trend = "stable" /\ t.percentageChange = <<0, 1>>

\* C17: the overall trend is the comparison of the categories applied to the
\* monthly grand totals: overallTrend and overallPercentageChange of a stored
\* result are what the classification of a category returns for a category
\* whose monthly amounts are the monthly totals, thresholds, zero baseline and
\* short series included.
C17_OverallIsCategoryClassification ==
  \A u \in Users : Stored(u) =>
    LET r == StoredResult(u)
        totals == [k \in DOMAIN r.monthlyTotals |-> r.monthlyTotals[k].total]
    IN /\ r.overallTrend = CategoryTrend(totals).trend
       /\ r.overallPercentageChange = CategoryTrend(totals).percentageChange

\* C18: a category is classified insufficient data, with percentageChange 0,
\* exactly when no month precedes the last three of its series, that is when
\* the series has at most three months; with four months or more it is
\* increasing, decreasing or stable.
C18_InsufficientData ==
  \A u \in Users : Stored(u) =>
    \A t \in StoredTrends(u) :
      /\ t.trend = "insufficient data" <=> Len(t.data) <= 3
      /\ t.trend = "insufficient data" <=> ThreeBefore(t.data) = {}
      /\ t.trend = "insufficient data" => t.percentageChange = <<0, 1>>
      /\ Len(t.data) >= 4 => t.trend \in {"increasing", "decreasing", "stable"}

\* A stored result over three months, rising, and classified insufficient
\* data; and one over four months, classified.
C18_ThreeMonthsInsufficient ==
  /\ Stored("u1")
  /\ \E t \in StoredTrends("u1") :
       /\ t.data = <<100, 110, 150>>
       /\ t.trend = "insufficient data" /\ t.percentageChange = <<0, 1>>

C18_FourMonthsClassified ==
  /\ Stored("u1")
  /\ \E t \in StoredTrends("u1") :
       /\ t.data = <<100, 100, 100, 150>>
       /\ t.trend = "increasing" /\ t.percentageChange = <<50, 3>>

\* The percentageChange stored for category c, and the entries of the stored
\* insights of one type, in their order.
StoredChange(u, c) ==
  (CHOOSE t \in StoredTrends(u) : t.category = c).percentageChange
StoredInsights(u, type) ==
  SelectSeq(StoredResult(u).insights, LAMBDA x : x.type = type)
Trending(u, direction) ==
  {t.category : t \in {x \in StoredTrends(u) : x.trend = direction}}
Listed(u, type) ==
  {StoredInsights(u, type)[k].category : k \in DOMAIN StoredInsights(u, type)}

\* C19: the insights hold the overall sentence first, then the (up to) three
\* increasing categories of largest percentageChange, largest first, then the
\* (up to) three decreasing categories of most negative percentageChange,
\* most negative first.
C19_InsightSelection ==
  \A u \in Users : Stored(u) =>
    LET L == StoredResult(u).insights
        inc == StoredInsights(u, "increasing")
        dec == StoredInsights(u, "decreasing")
    IN /\ L = <<L[1]>> \o inc \o dec
       /\ L[1].type = "overall"
       /\ Listed(u, "increasing") \subseteq Trending(u, "increasing")
       /\ Len(inc) = Min(3, Cardinality(Trending(u, "increasing")))
       /\ \A c \in Listed(u, "increasing") :
            \A e \in Trending(u, "increasing") \ Listed(u, "increasing") :
              ~Less(StoredChange(u, c), StoredChange(u, e))
       /\ \A j, k \in DOMAIN inc :
            j < k => ~Less(StoredChange(u, inc[j].category),
                           StoredChange(u, inc[k].category))
       /\ Listed(u, "decreasing") \subseteq Trending(u, "decreasing")
       /\ Len(dec) = Min(3, Cardinality(Trending(u, "decreasing")))
       /\ \A c \in Listed(u, "decreasing") :
            \A e \in Trending(u, "decreasing") \ Listed(u, "decreasing") :
              ~Less(StoredChange(u, e), StoredChange(u, c))
       /\ \A j, k \in DOMAIN dec :
            j < k => ~Less(StoredChange(u, dec[k].category),
                           StoredChange(u, dec[j].category))

\* The rows rs as the store returns them when it orders the groups of a month
\* by category name.
RECURSIVE RowsByName(_)
RowsByName(S) ==
  IF S = {} THEN <<>>
  ELSE LET r == CHOOSE x \in S : \A y \in S :
                  \/ x.month < y.month
                  \/ x.month = y.month /\ NameRank(x.category) <= NameRank(y.category)
       IN <<r>> \o RowsByName(S \ {r})

\* C20: categories of equal percentageChange are ranked by category name, so
\* the stored insights are those of the same set of rows returned in any
\* other order, such as by name.
C20_TiesByName ==
  \A u \in Users : Stored(u) =>
    /\ \A type \in {"increasing", "decreasing"} :
         LET L == StoredInsights(u, type) IN
         \A j, k \in DOMAIN L :
           (j < k /\ StoredChange(u, L[j].category) = StoredChange(u, L[k].category))
             => NameRank(L[j].category) < NameRank(L[k].category)
    /\ StoredResult(u).insights
         = insights(Window(RowsByName({rows[u][k] : k \in DOMAIN rows[u]}), clock))

\* The TrendResult of a stored result x: its fields other than the date of
\* the analysis.
TrendResult(x) ==
  [categoryTrends |-> x.categoryTrends, overallTrend |-> x.overallTrend,
   overallPercentageChange |-> x.overallPercentageChange,
   insights |-> x.insights, monthlyTotals |-> x.monthlyTotals]

\* A run of the job ends, its result and the deletion of the marker written.
RunEnds(u) ==
  \E i \in 1..Len(handlers) : handlers[i].user = u /\ StoreDel(i)

C21_DenseMatrix ==
  \A u \in Users : Stored(u) =>
    \A t \in StoredTrends(u) :
      LET first == t.months[1]
          last == t.months[Len(t.months)]
      IN /\ Len(t.data) = Len(t.months)
         /\ \A m \in first..last : \E k \in DOMAIN t.months : t.months[k] = m
         /\ \A k \in DOMAIN t.data :
              t.data[k] = Amount(rows[u], t.months[k], t.category)
         /\ t.averageMonthly[1] * (last - first + 1)
              = t.averageMonthly[2] * Total(t.data, DOMAIN t.data)

\* ---- outages of the cache
\* The write requests in flight: their record write has succeeded, their
\* answer is not sent yet.
WritesInFlight ==
  BagCardinality([r \in {x \in BagToSet(reqs) : x.kind \in MutationTypes}
                    |-> reqs[r]])

\* C22: a create, update or delete request whose record write succeeded is
\* answered with success and enqueues its job, also when the cache does not
\* answer while the request invalidates.
C22_WriteSurvivesCacheOutage ==
  [][WritesInFlight' < WritesInFlight
       => /\ answer'.status \in {200, 201}
          /\ Len(queue') = Len(queue) + 1
          /\ queue'[Len(queue')].type = answer'.route]_vars

\* C23: a request for the monthly summary or the analytics summary made
\* while the cache does not answer goes on to the computation from the store
\* and is answered with the computed value, not with an error.
C23_ReadSurvivesCacheOutage ==
  [][~redisUp =>
       /\ \A u \in Users :
            (MonthlyGet(u) \/ SummaryGet(u))
              => BagCardinality(reqs') = BagCardinality(reqs) + 1
       /\ \A r \in BagToSet(reqs) :
            ReadSet(r) => answer' = Answered(r.kind, r.user, 200, r.val)]_vars

\* ---- readers
\* The requests of kind k of user u in flight.
InFlight(k, u) == {r \in BagToSet(reqs) : r.kind = k /\ r.user = u}

\* C24: readers try the cache first.  A request for the monthly summary is
\* answered from the cache on a hit, without a computation; on a miss it
\* computes and then caches the value it answers.  A request for the patterns
\* never computes: on a hit it ends at once and enqueues nothing, on a miss it
\* enqueues one job CALCULATE_PATTERNS and writes nothing to the cache.
C24_CacheFirst ==
  /\ [][\A u \in Users : (MonthlyGet(u) /\ redisUp) =>
          \/ \E m \in Months :
               /\ IsPresent(monthly[u][m])
               /\ answer' = Answered("MONTHLY", u, 200, monthly[u][m][1])
               /\ reqs' = reqs
          \/ \E m \in Months :
               /\ ~IsPresent(monthly[u][m])
               /\ reqs' = reqs (+) SetToBag({Req("MONTHLY", u, "agg", m, 0, {})})
               /\ answer' = answer]_vars
  /\ [][\A r \in BagToSet(reqs) : (ReadSet(r) /\ redisUp /\ r.kind = "MONTHLY") =>
          /\ answer' = Answered("MONTHLY", r.user, 200, r.val)
          /\ monthly'[r.user][r.month] = Present(r.val)]_vars
  /\ [][\A u \in Users : (PatternsGet(u) /\ redisUp) =>
          /\ UNCHANGED <<queue, cacheVars>>
          /\ IF IsPresent(patterns[u])
               THEN reqs' = reqs
               ELSE reqs' = reqs (+) SetToBag({Req("PATTERNS", u, "publish",
                                                   NoMonth, 0, {})})]_vars
  /\ [][\A r \in BagToSet(reqs) : PatternsPublish(r) =>
          /\ queue' = Append(queue, [type |-> CALCULATE_PATTERNS, userId |-> r.user])
          /\ UNCHANGED cacheVars]_vars

\* Both requests were answered, the last one with the monthly summary of u1
\* that the cache holds for the one month cached: a miss that computed and
\* cached it, and a request answered from the cache.
C24_HitAfterMiss ==
  /\ issued = 2 /\ reqs = EmptyBag
  /\ answer = Answered("MONTHLY", "u1", 200, 0)
  /\ monthly["u1"]["2024-01"] = Present(0)
  /\ ~IsPresent(monthly["u1"]["2024-02"])
  /\ db["u1"] = 0

\* The patterns of u1 are in the cache after a miss enqueued the job, and the
\* requests that followed enqueued nothing more.
C24_PatternsHit ==
  /\ IsPresent(patterns["u1"])
  /\ issued = MaxRequests /\ reqs = EmptyBag
  /\ queue = <<>> /\ handlers = <<>>
  /\ answer = NoAnswer

\* ---- sessions
\* C25: once POST /logout has answered 200 for a token, the middleware lets
\* no request with that token through: after the logout, no request that
\* carries it has reached its route.
C25_LoggedOutTokenRejected ==
  \A t \in Tokens :
    sessions[t].loggedOut =>
      sessions[t].last # "next" /\ sessions[t].pc # "del"

\* ---- the worker and messages it does not know
\* C26: a message of an unknown type is taken from the queue and skipped: no
\* handler stays in flight for it and no cache entry, marker or record
\* changes; and it does not block the queue: whenever a message waits, the
\* worker can take it.
C26_UnknownTypeSkipped ==
  /\ [][(queue # <<>> /\ Head(queue).type \notin KnownTypes /\ queue' # queue)
          => /\ queue' = Tail(queue)
             /\ UNCHANGED <<handlers, cacheVars, db>>]_vars
  /\ [](queue # <<>> => ENABLED (SkipUnknown \/ InvKeys \/ AnalyzeMark))

\* The backlog is processed: the message of unknown type was skipped, the
\* write of u1 behind or before it has invalidated the summaries of u1, and
\* those of u2 are in the cache as before.
C26_SkippedAndWentOn ==
  /\ queue = <<>> /\ handlers = <<>>
  /\ db = [u \in Users |-> IF u = "u1" THEN 1 ELSE 0]
  /\ summary["u1"] = Absent
  /\ \A m \in Months : monthly["u1"][m] = Absent
  /\ IsPresent(summary["u2"])
  /\ \A m \in Months : IsPresent(monthly["u2"][m])

\* ---- invalidation that finds nothing
\* C27: invalidating a user who has no summary in the cache is a no-op that
\* succeeds: del is never called with an empty list of keys, neither by the
\* worker nor by the route; the lookup that finds no monthly key goes straight
\* on to the analytics summary; and deleting an analytics summary that is not
\* there changes no cache entry and ends the handler normally.
C27_EmptyInvalidationNoOp ==
  /\ [](\A i \in 1..Len(handlers) :
          handlers[i].pc = "delM" => handlers[i].keys # {})
  /\ [](\A r \in BagToSet(reqs) : r.pc = "del" => r.keys # {})
  /\ [][(InvKeys /\ redisUp /\ MonthlyKeys(Head(queue).userId) = {})
          => /\ UNCHANGED cacheVars
             /\ handlers'[Len(handlers')].pc = "delS"]_vars
  /\ [][\A i \in 1..Len(handlers) :
          (InvDelSummary(i) /\ redisUp /\ summary[handlers[i].user] = Absent)
            => /\ UNCHANGED cacheVars
               /\ Len(handlers') = Len(handlers) - 1]_vars

\* The only request so far was a write; its job is with the worker, whose
\* lookup found no monthly key, and no analytics summary is cached.
C27_NothingToInvalidate ==
  /\ issued = 1
  /\ \E i \in 1..Len(handlers) :
       /\ handlers[i].type \in MutationTypes
       /\ handlers[i].pc = "delS" /\ handlers[i].keys = {}
       /\ MonthlyKeys(handlers[i].user) = {}
       /\ summary[handlers[i].user] = Absent

\* ---- what the result entry holds
\* C28: the entry spending_patterns:{U} is absent or the whole result of one
\* computation, the one of its analysisDate, also when the runs of several
\* jobs of U interleave; and the entry changes only by one write of a
\* handler's whole result over whatever was there.
C28_WholeResultOnly ==
  /\ [](\A u \in Users :
          Stored(u) =>
            StoredResult(u) =
              AnalyzeRows(Window(rows[u], StoredResult(u).analysisDate),
                          StoredResult(u).analysisDate))
  /\ [][\A u \in Users :
          patterns'[u] # patterns[u] =>
            \E i \in 1..Len(handlers) :
              /\ handlers[i].user = u /\ handlers[i].pc = "set"
              /\ patterns'[u] = Present(handlers[i].val)]_vars

\* Two runs interleave: the later computation has stored its result, and the
\* earlier one, over a different window, is about to write over it.
C28_OlderRunWritesLast ==
  /\ Stored("u1")
  /\ StoredResult("u1").analysisDate = MaxMonths + 2
  /\ \E i \in 1..Len(handlers) :
       /\ handlers[i].user = "u1" /\ handlers[i].pc = "set"
       /\ handlers[i].val.res.analysisDate = MaxMonths + 1
       /\ handlers[i].val.res.monthlyTotals # StoredResult("u1").monthlyTotals

\* ---- the worker is told to stop
\* C29: when the worker process ends on a termination signal with jobs in
\* flight, no job it abandons has been acknowledged: each of them is back in
\* the queue for redelivery.
C29_NoAckedJobAbandoned ==
  [][WorkerExit =>
       \A i \in 1..Len(handlers) :
         /\ ~handlers[i].acked
         /\ \E k \in 1..Len(queue') :
              /\ queue'[k].type = handlers[i].type
              /\ queue'[k].userId = handlers[i].user]_vars

\* ---- nothing to analyse
\* C30: the analysis of a user without an expense in the window is not an
\* error: the run that loaded no row goes on to store its result, the result
\* stored has no category trend, no monthly total, the overall trend "stable"
\* with change 0 and hasEnoughData false, and a status poll then answers
\* "completed".
C30_NoDataCompletes ==
  /\ [](\A i \in 1..Len(handlers) :
          (handlers[i].pc = "set" /\ Window(rows[handlers[i].user], clock) = <<>>)
            => /\ handlers[i].val.res.categoryTrends = <<>>
               /\ handlers[i].val.res.monthlyTotals = <<>>
               /\ handlers[i].val.res.overallTrend = "stable"
               /\ handlers[i].val.res.overallPercentageChange = Rat(0, 1)
               /\ ~handlers[i].val.res.hasEnoughData)
  /\ [][\A i \in 1..Len(handlers) :
          (StoreSet(i) /\ redisUp)
            => patterns'[handlers[i].user] = Present(handlers[i].val)]_vars
  /\ [][\A u \in Users :
          (StatusGetResult(u) /\ Stored(u))
            => lastPoll'[u] = [status |-> "completed", data |-> patterns[u]]]_vars

\* The result of the user whose only expense is older than the window is
\* stored, zero-valued, and the poll has answered "completed" with it.
C30_EmptyResultCompleted ==
  /\ rows["u1"] # <<>> /\ Window(rows["u1"], clock) = <<>>
  /\ Stored("u1")
  /\ StoredResult("u1").categoryTrends = <<>>
  /\ ~StoredResult("u1").hasEnoughData
  /\ lastPoll["u1"] = [status |-> "completed", data |-> patterns["u1"]]
  /\ ~processing["u1"]

\* ---- readers that overlap a write
\* C31: when no request of U is in flight and no mutation job of U is queued
\* or with the worker, every present entry monthly_summary:{U}:* and
\* analytics_summary:{U} holds an aggregate of the records as they are now,
\* not of their state before a write.
C31_NoStaleEntryAtRest ==
  \A u \in Users :
    (/\ \A r \in BagToSet(reqs) : r.user # u
     /\ MutationJobs(u) = 0)
      => /\ \A m \in Months :
              IsPresent(monthly[u][m]) => monthly[u][m] = Present(db[u])
         /\ IsPresent(summary[u]) => summary[u] = Present(db[u])

\* ---- triggers under the lease
\* The CALCULATE_PATTERNS jobs of u in the queue or with the worker.
Outstanding(u) ==
  Len(SelectSeq(queue, LAMBDA j : j.type = CALCULATE_PATTERNS /\ j.userId = u))
    + Len(SelectSeq(handlers,
                    LAMBDA h : h.type = CALCULATE_PATTERNS /\ h.user = u))

\* The marker of u is set, or a job of u is queued or in flight.
Leased(u) == processing[u] \/ Outstanding(u) > 0

MutationStep ==
  \/ \E u \in Users : PostSave(u)
  \/ \E r \in BagToSet(reqs) : MutKeys(r) \/ MutDel(r) \/ MutPublish(r)
  \/ InvKeys
  \/ \E i \in 1..Len(handlers) : InvDelMonthly(i) \/ InvDelSummary(i)

\* C33: no step of a mutating request and no step of the worker on a
\* NEW/UPDATE/DELETE_EXPENSE job changes spending_patterns:{U} or
\* spending_patterns_processing:{U}: what the status route would answer is
\* the same before and after, and a stored result stays.
C33_MutationKeepsAnalysis ==
  [][MutationStep =>
       \A u \in Users :
         /\ patterns'[u] = patterns[u]
         /\ processing'[u] = processing[u]
         /\ StatusAnswer(patterns'[u], processing'[u])
              = StatusAnswer(patterns[u], processing[u])]_vars

\* The result of u1, computed before u1 wrote an expense, is still in the
\* cache when the write has been answered and its job handled.
C33_ResultOutlivesMutation ==
  /\ Stored("u1")
  /\ patterns["u1"][1].ver = 0
  /\ db["u1"] = 1
  /\ answer = Answered("NEW_EXPENSE", "u1", 201, "expense")
  /\ MutationJobs("u1") = 0
  /\ handlers = <<>>
  /\ reqs = EmptyBag

\* ---- one user's operations and another user's entries
\* The four cache entries of v are as they were.
SameEntries(v) ==
  /\ monthly'[v] = monthly[v]
  /\ summary'[v] = summary[v]
  /\ patterns'[v] = patterns[v]
  /\ processing'[v] = processing[v]

\* C34: a step of a request of user U, or of a job of U with the worker,
\* leaves the monthly summaries, the analytics summary, the result and the
\* marker of every other user V as they were.
C34_UserIsolation ==
  [][\A v \in Users :
       /\ \A u \in Users \ {v} :
            (PostSave(u) \/ MonthlyGet(u) \/ SummaryGet(u) \/ PatternsGet(u))
              => SameEntries(v)
       /\ \A r \in BagToSet(reqs) :
            (/\ r.user # v
             /\ \/ MutKeys(r) \/ MutDel(r) \/ MutPublish(r)
                \/ ReadAggregate(r) \/ ReadSet(r) \/ PatternsPublish(r))
              => SameEntries(v)
       /\ (queue # <<>> /\ Head(queue).userId # v /\ (InvKeys \/ AnalyzeMark))
            => SameEntries(v)
       /\ \A i \in 1..Len(handlers) :
            (/\ handlers[i].user # v
             /\ \/ InvDelMonthly(i) \/ InvDelSummary(i)
                \/ AnalyzeLoad(i) \/ StoreSet(i) \/ StoreDel(i))
              => SameEntries(v)]_vars

\* u1 had every entry and wrote an expense: the request and its job have
\* deleted the summaries of u1, and every entry of u2 is still there.
C34_OthersUntouched ==
  /\ db["u1"] = 1 /\ issued = 1
  /\ answer = Answered("NEW_EXPENSE", "u1", 201, "expense")
  /\ queue = <<>> /\ handlers = <<>> /\ reqs = EmptyBag
  /\ Stored("u1")
  /\ MonthlyKeys("u1") = {} /\ summary["u1"] = Absent
  /\ MonthlyKeys("u2") = Months /\ IsPresent(summary["u2"]) /\ Stored("u2")

\* ---- writes that fail
\* The write route of u answers in this step, at the lookup or the write of
\* the record: no request of it goes on to the invalidation.
WriteRefused(u) == (PostSave(u) \/ PutDeleteSave(u)) /\ reqs' = reqs

\* C35: a create, update or delete that ends at the record store is answered
\* 404 (no such record), 401 (record of another user) or 500 (the store
\* failed), and it changes no record, deletes no cache entry and enqueues no
\* job.
C35_FailedWriteNoEffect ==
  [][\A u \in Users :
       WriteRefused(u)
         => /\ answer'.status \in {401, 404, 500}
            /\ answer'.user = u
            /\ db' = db
            /\ UNCHANGED cacheVars
            /\ queue' = queue]_vars

\* u1 has a monthly summary in the cache and has asked to delete a record
\* that does not exist: 404, the summary still cached, no write, no job.
C35_NotFoundKeepsCache ==
  /\ answer = Answered("DELETE_EXPENSE", "u1", 404, "Expense not found")
  /\ MonthlyKeys("u1") # {}
  /\ db["u1"] = 0
  /\ queue = <<>> /\ handlers = <<>> /\ reqs = EmptyBag

\* ---- the marker of the result and its classifications
\* C36: in a stored result hasEnoughData is true only if some category is
\* classified increasing, decreasing or stable, and it is false when every
\* category is classified insufficient data.
C36_EnoughDataMeansClassified ==
  \A u \in Users : Stored(u) =>
    /\ StoredResult(u).hasEnoughData
         => \E t \in StoredTrends(u) : t.trend # "insufficient data"
    /\ (\A t \in StoredTrends(u) : t.trend = "insufficient data")
         => ~StoredResult(u).hasEnoughData

\* ---- the Redis client
\* C37: connect() is never called on the client while an earlier connect() is
\* in progress or once the client is open.
C37_ConnectOnlyWhenClosed == ~client.reentered

====
